---------------------------- MODULE Spec2Model ----------------------------
(***************************************************************************)
(* The stats daemon of psi-ags-conf (src/stats-service/src/main.rs): the   *)
(* rolling history, the sampler with its counter baselines, the tick       *)
(* driver, the socket server with its connection handlers, and the PID     *)
(* marker check at startup.                                                *)
(*                                                                         *)
(* f64 values are modelled as exact rationals <<numerator, denominator>>   *)
(* in lowest terms with a positive denominator; rounding of the last bit   *)
(* of an f64 is below the level of this model.  Option<T> is modelled as a *)
(* sequence: None is <<>>, Some(x) is <<x>>.                               *)
(***************************************************************************)
EXTENDS Integers, Sequences, FiniteSets, TLC

\* ------------------------------------------------------------------ bounds
\* Daemon processes that may be started on the host.
MaxProcs == 2
\* Ticks a daemon runs in the model.
MaxTicks == 2
\* Client connections made to the socket.
MaxConns == 2
\* Logical cores reported by num_cpus::get() at construction.
NumCores == 2
\* Largest number of per-core lines a /proc/stat reading carries.
MaxCoreLines == 3
\* Largest number of accept errors one connection attempt meets.
MaxAcceptErrors == 2

\* ------------------------------------------------------- program constants
HISTORY_SIZE == 60
UPDATE_INTERVAL_MS == 1000

Procs == 1..MaxProcs
Conns == 1..MaxConns

\* ------------------------------------------------------------------ Option
None == <<>>
Some(x) == <<x>>
IsSome(o) == Len(o) = 1
IsNone(o) == Len(o) = 0
Unwrap(o) == o[1]

\* --------------------------------------------------------------------- f64
Abs(x) == IF x < 0 THEN -x ELSE x

RECURSIVE GCD(_, _)
GCD(a, b) == IF b = 0 THEN a ELSE GCD(b, a % b)

\* The rational n/d in lowest terms, d # 0.
Rat(n, d) ==
    LET g == GCD(Abs(n), Abs(d))
        s == IF d < 0 THEN -1 ELSE 1
    IN  <<(s * n) \div g, (s * d) \div g>>

\* An integer as f64 (parse::<f64>() of a counter, "as f64").
F64(i) == <<i, 1>>
Zero == F64(0)
FAdd(a, b) == Rat(a[1] * b[2] + b[1] * a[2], a[2] * b[2])
FSub(a, b) == Rat(a[1] * b[2] - b[1] * a[2], a[2] * b[2])
FMul(a, b) == Rat(a[1] * b[1], a[2] * b[2])
\* Only ever applied with b # 0: every division of the program is guarded.
FDiv(a, b) == Rat(a[1] * b[2], a[2] * b[1])
FGt0(a) == a[1] > 0
FLe(a, b) == a[1] * b[2] <= b[1] * a[2]

\* ------------------------------------------------------------ StatsHistory
Zeros(n) == [i \in 1..n |-> Zero]

\* StatsHistory::new(): every buffer pre-filled with HISTORY_SIZE zeros, one
\* per-core buffer per detected core.
NewHistory(num_cores) ==
    [ cpu              |-> Zeros(HISTORY_SIZE),
      cpu_cores        |-> [c \in 1..num_cores |-> Zeros(HISTORY_SIZE)],
      cpu_iowait       |-> Zeros(HISTORY_SIZE),
      memory           |-> Zeros(HISTORY_SIZE),
      memory_total     |-> Zero,
      memory_apps      |-> Zeros(HISTORY_SIZE),
      memory_cached    |-> Zeros(HISTORY_SIZE),
      memory_buffers   |-> Zeros(HISTORY_SIZE),
      memory_slab      |-> Zeros(HISTORY_SIZE),
      memory_shmem     |-> Zeros(HISTORY_SIZE),
      network_download |-> Zeros(HISTORY_SIZE),
      network_upload   |-> Zeros(HISTORY_SIZE),
      last_update      |-> 0 ]

\* The memory of a process that has not constructed its history yet.
NoHistory ==
    [ cpu |-> <<>>, cpu_cores |-> <<>>, cpu_iowait |-> <<>>, memory |-> <<>>,
      memory_total |-> Zero, memory_apps |-> <<>>, memory_cached |-> <<>>,
      memory_buffers |-> <<>>, memory_slab |-> <<>>, memory_shmem |-> <<>>,
      network_download |-> <<>>, network_upload |-> <<>>, last_update |-> 0 ]

\* A mutation of add_value that pushes without evicting.
AddValueNoEvict(queue, value) == Append(queue, value)

\* StatsHistory::add_value: push_back, then pop_front when over capacity.
AddValue(queue, value) ==
    LET pushed == Append(queue, value)
    IN  IF Len(pushed) > HISTORY_SIZE THEN Tail(pushed) ELSE pushed

\* A mutation of add_stats that opens a buffer for a reading beyond the
\* last per-core buffer.
AddStatsCpuGrowing(h, s) ==
    [h EXCEPT
       !.cpu = AddValue(@, s.cpu_usage),
       !.cpu_iowait = AddValue(@, s.cpu_iowait),
       !.cpu_cores = [i \in 1..(IF Len(s.cpu_cores) > Len(@)
                                THEN Len(s.cpu_cores) ELSE Len(@)) |->
                        IF i > Len(@)
                        THEN AddValue(Zeros(HISTORY_SIZE), s.cpu_cores[i])
                        ELSE IF i <= Len(s.cpu_cores)
                             THEN AddValue(@[i], s.cpu_cores[i])
                             ELSE @[i]]]

\* add_stats, lines 107-114: overall usage, iowait, per-core by index.
AddStatsCpu(h, s) ==
    [h EXCEPT
       !.cpu = AddValue(@, s.cpu_usage),
       !.cpu_iowait = AddValue(@, s.cpu_iowait),
       !.cpu_cores = [i \in 1..Len(@) |->
                        IF i <= Len(s.cpu_cores)
                        THEN AddValue(@[i], s.cpu_cores[i])
                        ELSE @[i]]]

\* add_stats, lines 116-122: the memory series and the total-memory scalar.
AddStatsMem(h, s) ==
    [h EXCEPT
       !.memory = AddValue(@, s.memory.used_percentage),
       !.memory_total = s.memory.total,
       !.memory_apps = AddValue(@, s.memory.apps),
       !.memory_cached = AddValue(@, s.memory.cached),
       !.memory_buffers = AddValue(@, s.memory.buffers),
       !.memory_slab = AddValue(@, s.memory.slab),
       !.memory_shmem = AddValue(@, s.memory.shmem)]

\* A mutation of add_stats that clamps a negative rate to 0.
AddStatsNetClamped(h, s) ==
    [h EXCEPT
       !.network_download =
           AddValue(@, IF s.network_download[1] < 0 THEN Zero
                       ELSE s.network_download),
       !.network_upload =
           AddValue(@, IF s.network_upload[1] < 0 THEN Zero
                       ELSE s.network_upload),
       !.last_update = s.timestamp]

\* add_stats, lines 123-125: the network series and last_update.
AddStatsNet(h, s) ==
    [h EXCEPT
       !.network_download = AddValue(@, s.network_download),
       !.network_upload = AddValue(@, s.network_upload),
       !.last_update = s.timestamp]

\* StatsHistory::add_stats as a whole.
AddStats(h, s) == AddStatsNet(AddStatsMem(AddStatsCpu(h, s), s), s)

\* The global metric buffers of a history, in declaration order.
GlobalBuffers(h) ==
    << h.cpu, h.cpu_iowait, h.memory, h.memory_apps, h.memory_cached,
       h.memory_buffers, h.memory_slab, h.memory_shmem,
       h.network_download, h.network_upload >>

\* serde_json::to_string of a StatsHistory: the JSON object as its sequence
\* of (key, value) members in the struct's declaration order.
HistoryToJson(h) ==
    << <<"cpu", h.cpu>>,
       <<"cpu_cores", h.cpu_cores>>,
       <<"cpu_iowait", h.cpu_iowait>>,
       <<"memory", h.memory>>,
       <<"memory_total", h.memory_total>>,
       <<"memory_apps", h.memory_apps>>,
       <<"memory_cached", h.memory_cached>>,
       <<"memory_buffers", h.memory_buffers>>,
       <<"memory_slab", h.memory_slab>>,
       <<"memory_shmem", h.memory_shmem>>,
       <<"network_download", h.network_download>>,
       <<"network_upload", h.network_upload>>,
       <<"last_update", h.last_update>> >>

\* serde_json::to_string_pretty of a SystemStats.
StatsToJson(s) ==
    << <<"timestamp", s.timestamp>>,
       <<"cpu_usage", s.cpu_usage>>,
       <<"cpu_cores", s.cpu_cores>>,
       <<"cpu_iowait", s.cpu_iowait>>,
       <<"memory", << <<"total", s.memory.total>>,
                      <<"available", s.memory.available>>,
                      <<"used_percentage", s.memory.used_percentage>>,
                      <<"apps", s.memory.apps>>,
                      <<"cached", s.memory.cached>>,
                      <<"buffers", s.memory.buffers>>,
                      <<"slab", s.memory.slab>>,
                      <<"shmem", s.memory.shmem>> >> >>,
       <<"network_download", s.network_download>>,
       <<"network_upload", s.network_upload>> >>

\* ----------------------------------------------------------------- Sampler
\* A whitespace-separated token of a proc file: Some(n) when it parses as a
\* number, None when it does not.  parse::<f64>().unwrap_or(0.0).
ParseF64(tok) == IF IsSome(tok) THEN F64(Unwrap(tok)) ELSE Zero
\* parse::<u64>().unwrap_or(0): a negative number does not parse either.
ParseU64(tok) == IF IsSome(tok) /\ Unwrap(tok) >= 0 THEN Unwrap(tok) ELSE 0

\* A line of /proc/stat is [label, parts]: label "cpu" is the aggregate line
\* (starts_with("cpu ")), "cpuN" a per-core line (starts_with("cpu") only),
\* anything else another line; parts are the tokens after the label.
IsAggregateLine(line) == line.label = "cpu"
IsCpuLine(line) == line.label \in {"cpu", "cpuN"}
\* parts.len() >= 8, the label being parts[0].
HasEightParts(line) == Len(line.parts) + 1 >= 8

\* Lines 170-172 and 208-210: the three sums of a cpu line.
CpuSums(user, nice, system, idle, iowait, irq, softirq) ==
    [total  |-> FAdd(FAdd(idle,
                          FAdd(FAdd(FAdd(FAdd(user, nice), system), irq),
                               softirq)),
                     iowait),
     idle   |-> idle,
     iowait |-> iowait]

\* Lines 162-168 and 200-206: the fields of a cpu line, parts[1..7].
ParseCpuLine(line) ==
    CpuSums(ParseF64(line.parts[1]), ParseF64(line.parts[2]),
            ParseF64(line.parts[3]), ParseF64(line.parts[4]),
            ParseF64(line.parts[5]), ParseF64(line.parts[6]),
            ParseF64(line.parts[7]))

\* Lines 158-161: the aggregate line, None when the first line is not one.
ParseAggregate(lines) ==
    IF Len(lines) >= 1 /\ IsAggregateLine(lines[1]) /\ HasEightParts(lines[1])
    THEN Some(ParseCpuLine(lines[1]))
    ELSE None

\* A mutation of the overall usage that counts iowait as usage.
OverallUsageWithIowait(total_delta, idle_delta, iowait_delta) ==
    FMul(FDiv(FSub(total_delta, idle_delta), total_delta), F64(100))

\* Line 183.
OverallUsage(total_delta, idle_delta, iowait_delta) ==
    FMul(FDiv(FSub(FSub(total_delta, idle_delta), iowait_delta), total_delta),
         F64(100))

\* Line 184.
IowaitPercentage(total_delta, iowait_delta) ==
    FMul(FDiv(iowait_delta, total_delta), F64(100))

\* A mutation of the guard that computes on any non-zero total delta.
OverallMeasureUnguarded(total_delta, idle_delta, iowait_delta) ==
    IF total_delta # Zero
    THEN [usage  |-> OverallUsage(total_delta, idle_delta, iowait_delta),
          iowait |-> IowaitPercentage(total_delta, iowait_delta)]
    ELSE [usage |-> Zero, iowait |-> Zero]

\* Lines 182-185: the two overall percentages out of the three deltas.
OverallMeasure(total_delta, idle_delta, iowait_delta) ==
    IF FGt0(total_delta)
    THEN [usage  |-> OverallUsage(total_delta, idle_delta, iowait_delta),
          iowait |-> IowaitPercentage(total_delta, iowait_delta)]
    ELSE [usage |-> Zero, iowait |-> Zero]

\* Lines 175-188: the overall percentages of a call that parsed the
\* aggregate line agg (None when it did not), on the baseline prev_cpu.
Overall(agg, prev_cpu) ==
    IF IsSome(agg) /\ IsSome(prev_cpu)
    THEN OverallMeasure(FSub(Unwrap(agg).total, Unwrap(prev_cpu).total),
                        FSub(Unwrap(agg).idle, Unwrap(prev_cpu).idle),
                        FSub(Unwrap(agg).iowait, Unwrap(prev_cpu).iowait))
    ELSE [usage |-> Zero, iowait |-> Zero]

\* Line 229.
CoreUsage(total_delta, idle_delta) ==
    FMul(FDiv(FSub(total_delta, idle_delta), total_delta), F64(100))

\* Lines 228-233.
CoreMeasure(total_delta, idle_delta) ==
    IF FGt0(total_delta) THEN CoreUsage(total_delta, idle_delta) ELSE Zero

\* Line 212: what is kept of a per-core line.
CoreEntry(sums) == [total |-> sums.total, idle |-> sums.idle]

\* Lines 195-217: the (total, idle) pairs of the per-core lines that follow
\* the first line, up to the first line that is no cpu line; a cpu line with
\* too few parts is skipped.
RECURSIVE CoreStatsFrom(_, _)
CoreStatsFrom(lines, i) ==
    IF i > Len(lines) \/ ~IsCpuLine(lines[i]) THEN <<>>
    ELSE IF HasEightParts(lines[i])
         THEN <<CoreEntry(ParseCpuLine(lines[i]))>> \o CoreStatsFrom(lines, i + 1)
         ELSE CoreStatsFrom(lines, i + 1)

\* Lines 239-242: no previous per-core data.
FirstCoreUsage(n) == Zeros(n)

\* A mutation of the mismatch branch that pairs the readings with the
\* baseline as far as both go.
CoreUsagesZipped(core_stats, prev_cores) ==
    IF IsSome(prev_cores)
    THEN [i \in 1..Len(core_stats) |->
            IF i <= Len(Unwrap(prev_cores))
            THEN CoreMeasure(FSub(core_stats[i].total, Unwrap(prev_cores)[i].total),
                             FSub(core_stats[i].idle, Unwrap(prev_cores)[i].idle))
            ELSE Zero]
    ELSE FirstCoreUsage(Len(core_stats))

\* Lines 220-242: the per-core percentages.
CoreUsages(core_stats, prev_cores) ==
    IF IsSome(prev_cores)
    THEN IF Len(Unwrap(prev_cores)) = Len(core_stats)
         THEN [i \in 1..Len(core_stats) |->
                 CoreMeasure(FSub(core_stats[i].total, Unwrap(prev_cores)[i].total),
                             FSub(core_stats[i].idle, Unwrap(prev_cores)[i].idle))]
         ELSE Zeros(Len(core_stats))
    ELSE FirstCoreUsage(Len(core_stats))

\* read_cpu_stats on a readable file: agg the parsed aggregate line,
\* core_stats the per-core pairs.
CpuStatsOf(overall, agg, core_stats, prev_cpu, prev_cores) ==
    [result |-> [overall_usage |-> overall.usage,
                 core_usage |-> CoreUsages(core_stats, prev_cores),
                 iowait_percentage |-> overall.iowait],
     prev_cpu |-> IF IsSome(agg) THEN agg ELSE prev_cpu,
     prev_cores |-> Some(core_stats)]

\* read_cpu_stats: content is the text of /proc/stat (None when unreadable),
\* prev_cpu and prev_cores the two static baselines.  Returns the CpuStats
\* and the baselines as the call leaves them.
ReadCpuStats(content, prev_cpu, prev_cores) ==
    IF IsNone(content)
    THEN [result |-> [overall_usage |-> Zero, core_usage |-> <<>>,
                      iowait_percentage |-> Zero],
          prev_cpu |-> prev_cpu, prev_cores |-> prev_cores]
    ELSE CpuStatsOf(Overall(ParseAggregate(Unwrap(content)), prev_cpu),
                    ParseAggregate(Unwrap(content)),
                    CoreStatsFrom(Unwrap(content), 2), prev_cpu, prev_cores)

\* MemoryStats::default().
DefaultMemoryStats ==
    [total |-> Zero, available |-> Zero, used_percentage |-> Zero,
     apps |-> Zero, cached |-> Zero, buffers |-> Zero, slab |-> Zero,
     shmem |-> Zero]

\* A line of /proc/meminfo is [key, pieces, value]: key the text before the
\* first ':', pieces the number of pieces split(':') yields, value the
\* tokens after the colon.  Lines 256-260: the value a line inserts into
\* mem_info, None when it inserts nothing.
MemLineValue(line) ==
    IF line.pieces # 2 THEN None
    ELSE IF Len(line.value) = 0 THEN Some(Zero)
    ELSE IF IsSome(line.value[1]) THEN Some(F64(Unwrap(line.value[1])))
    ELSE None

\* mem_info.get(key).copied().unwrap_or(0.0) after the lines 1..n were
\* inserted in order: the last insertion under the key wins.
RECURSIVE MemGet(_, _, _)
MemGet(lines, n, key) ==
    IF n = 0 THEN Zero
    ELSE IF lines[n].key = key /\ IsSome(MemLineValue(lines[n]))
         THEN Unwrap(MemLineValue(lines[n]))
         ELSE MemGet(lines, n - 1, key)

\* A mutation of lines 273-283 that reports the available share as the used
\* percentage and only the active anonymous pages as apps.
MemoryStatsOfAvailable(total, available, active_anon, inactive_anon, shmem, slab, buffers, cached) ==
    [total |-> total,
     available |-> available,
     used_percentage |->
        IF FGt0(total)
        THEN FMul(FDiv(available, total), F64(100))
        ELSE Zero,
     apps |-> active_anon,
     cached |-> cached,
     buffers |-> buffers,
     slab |-> slab,
     shmem |-> shmem]

\* Lines 273-283.
MemoryStatsOf(total, available, active_anon, inactive_anon, shmem, slab, buffers, cached) ==
    [total |-> total,
     available |-> available,
     used_percentage |->
        IF FGt0(total)
        THEN FMul(FDiv(FSub(total, available), total), F64(100))
        ELSE Zero,
     apps |-> FAdd(active_anon, inactive_anon),
     cached |-> cached,
     buffers |-> buffers,
     slab |-> slab,
     shmem |-> shmem]

\* read_memory_stats: content is the text of /proc/meminfo.
ReadMemoryStats(content) ==
    IF IsNone(content) THEN DefaultMemoryStats
    ELSE MemoryStatsOf(
            MemGet(Unwrap(content), Len(Unwrap(content)), "MemTotal"),
            MemGet(Unwrap(content), Len(Unwrap(content)), "MemAvailable"),
            MemGet(Unwrap(content), Len(Unwrap(content)), "Active(anon)"),
            MemGet(Unwrap(content), Len(Unwrap(content)), "Inactive(anon)"),
            MemGet(Unwrap(content), Len(Unwrap(content)), "Shmem"),
            MemGet(Unwrap(content), Len(Unwrap(content)), "Slab"),
            MemGet(Unwrap(content), Len(Unwrap(content)), "Buffers"),
            MemGet(Unwrap(content), Len(Unwrap(content)), "Cached"))

\* A line of /proc/net/dev is [name, colons, values]: name the characters
\* before the first ':', colons the number of ':' in the line, values the
\* tokens after the colon.  line.contains("lo:") for a line with a colon.
EndsWithLo(name) ==
    Len(name) >= 2 /\ name[Len(name) - 1] = "l" /\ name[Len(name)] = "o"

\* Lines 298-302: the line takes part in the sums.
NetLineCounted(line) ==
    /\ line.colons >= 1
    /\ ~EndsWithLo(line.name)
    /\ line.colons + 1 = 2
    /\ Len(line.values) >= 9

\* Lines 293-308: the sum of column col over the counted lines.
RECURSIVE NetSum(_, _, _)
NetSum(lines, n, col) ==
    IF n = 0 THEN 0
    ELSE NetSum(lines, n - 1, col)
           + (IF NetLineCounted(lines[n])
              THEN ParseU64(lines[n].values[col]) ELSE 0)

\* A mutation of the rate that reports a counter that went backwards as 0.
RateNonNegative(bytes, prev_bytes, time_diff) ==
    IF FLe(F64(bytes), prev_bytes) THEN Zero
    ELSE FDiv(FDiv(FSub(F64(bytes), prev_bytes), F64(1024)), time_diff)

\* Lines 317-318: kilobytes per second.
Rate(bytes, prev_bytes, time_diff) ==
    FDiv(FDiv(FSub(F64(bytes), prev_bytes), F64(1024)), time_diff)

\* Line 314: duration_since(prev_time).as_secs_f64(), the clock in ms.
TimeDiff(now, prev_time) ==
    IF now >= prev_time THEN Rat(now - prev_time, 1000) ELSE Zero

\* Lines 320 and 326: the baseline a call leaves.
NetBaseline(rx_bytes, tx_bytes, now) ==
    Some([rx |-> F64(rx_bytes), tx |-> F64(tx_bytes), time |-> now])

\* A mutation of the first-call branch that reports the raw counters.
FirstNetRatesRaw(rx_bytes, tx_bytes) == <<F64(rx_bytes), F64(tx_bytes)>>

\* Line 330 reached with no baseline: no rate can be computed.
FirstNetRates(rx_bytes, tx_bytes) == <<Zero, Zero>>

\* Lines 316-323 and 330: the rates on the baseline prev.
NetDelta(rx_bytes, tx_bytes, prev, time_diff) ==
    IF FGt0(time_diff)
    THEN <<Rate(rx_bytes, prev.rx, time_diff), Rate(tx_bytes, prev.tx, time_diff)>>
    ELSE <<Zero, Zero>>

\* Lines 310-330 on the two sums.
NetStatsOf(rx_bytes, tx_bytes, now, prev_net) ==
    [rates |->
        IF IsSome(prev_net)
        THEN NetDelta(rx_bytes, tx_bytes, Unwrap(prev_net),
                      TimeDiff(now, Unwrap(prev_net).time))
        ELSE FirstNetRates(rx_bytes, tx_bytes),
     prev_net |-> NetBaseline(rx_bytes, tx_bytes, now)]

\* read_network_stats: content is the text of /proc/net/dev (None when
\* unreadable), now the Instant in milliseconds, prev_net the static
\* baseline.  Returns the rates and the baseline as the call leaves it.
ReadNetworkStats(content, now, prev_net) ==
    IF IsNone(content)
    THEN [rates |-> <<Zero, Zero>>, prev_net |-> prev_net]
    ELSE NetStatsOf(NetSum(Unwrap(content), Len(Unwrap(content)), 1),
                    NetSum(Unwrap(content), Len(Unwrap(content)), 9),
                    now, prev_net)

\* main, lines 433-441: the sample out of the three readers' results.
SystemStatsOf(cpu, mem, net, now) ==
    [cpu_stats |-> cpu.result,
     stats |-> [timestamp |-> now,
                cpu_usage |-> cpu.result.overall_usage,
                cpu_cores |-> cpu.result.core_usage,
                cpu_iowait |-> cpu.result.iowait_percentage,
                memory |-> mem,
                network_download |-> net.rates[1],
                network_upload |-> net.rates[2]],
     prev_cpu |-> cpu.prev_cpu,
     prev_cores |-> cpu.prev_cores,
     prev_net |-> net.prev_net]

\* main, lines 429-441: one sample.  reading holds the text of the three
\* proc files, now the clock in milliseconds.
TakeSample(reading, now, prev_cpu, prev_cores, prev_net) ==
    SystemStatsOf(ReadCpuStats(reading.stat, prev_cpu, prev_cores),
                  ReadMemoryStats(reading.meminfo),
                  ReadNetworkStats(reading.netdev, now, prev_net),
                  now)

\* ------------------------------------------------------------------- state
VARIABLES
    \* The host: the data directory, the PID marker file, the pids with an
    \* entry under /proc, the socket file, the two data files, the clock (ms).
    dataDir, marker, live, sockFile, historyFile, latestFile, clock,
    \* Per daemon process: the position of main, its exit status, the pid it
    \* parsed from the marker, the position of the socket server task.
    pc, exitCode, readPid, srv,
    \* Per daemon process: the history behind the mutex, the mutex holder,
    \* the three static baselines, the locals cpu_stats and stats of main's
    \* loop, the number of ticks begun.
    hist, lock, PREV_CPU_VALUES, PREV_CORE_VALUES, PREV_NET_VALUES,
    cpu_stats, stats, ticks,
    \* The connections made to the socket.
    conn,
    \* History variables of the verification: the shared files each process
    \* has modified, the proc files read by the current and by the previous
    \* tick, the samples passed to add_stats, the history after each
    \* completed add_stats, the outcome of the last write_history.
    touched, rawNow, rawPrev, recorded, committed, lastWrite,
    \* The overlay widget (graph-window), a process of its own: the memory
    \* chart data it holds, the history its last poll loaded and where that
    \* poll took its text from.
    widget

hostVars == <<dataDir, marker, live, sockFile, historyFile, latestFile, clock>>
mainVars == <<pc, exitCode, readPid, srv>>
tickVars == <<hist, lock, PREV_CPU_VALUES, PREV_CORE_VALUES, PREV_NET_VALUES,
              cpu_stats, stats, ticks>>
ghostVars == <<touched, rawNow, rawPrev, recorded, committed, lastWrite,
               widget>>
vars == <<hostVars, mainVars, tickVars, conn, ghostVars>>

\* ------------------------------------------------------------------ inputs
CpuLine(label, user, nice, system, idle, iowait, irq, softirq) ==
    [label |-> label,
     parts |-> <<Some(user), Some(nice), Some(system), Some(idle),
                 Some(iowait), Some(irq), Some(softirq)>>]
\* A cpu line with too few fields.
ShortCpuLine(label) == [label |-> label, parts |-> <<Some(1), Some(2), Some(3)>>]
\* The line that follows the cpu lines.
IntrLine == [label |-> "intr", parts |-> <<Some(0)>>]

\* First lines of /proc/stat: well-formed aggregate lines, one with a token
\* that is no number, one too short, and a file that starts with another
\* line.
AggLines ==
    { CpuLine("cpu", 100, 10, 50, 500, 10, 5, 5),
      CpuLine("cpu", 300, 20, 70, 1200, 60, 15, 15),
      CpuLine("cpu", 100, 10, 50, 500, 60, 5, 5),
      [label |-> "cpu",
       parts |-> <<None, Some(20), Some(70), Some(1200), Some(60), Some(15),
                   Some(15)>>],
      ShortCpuLine("cpu"),
      IntrLine }

\* The line of core i in the k-th counter state.
CoreLine(k, i) ==
    IF k = 1 THEN CpuLine("cpuN", 50 + i, 5, 25, 250 + i, 5, 2, 3)
    ELSE CpuLine("cpuN", 150 + 2 * i, 10, 35, 600 + 3 * i, 30 + i, 8, 7)

CoreSeqs ==
    { [i \in 1..n |-> CoreLine(k, i)] : n \in 0..MaxCoreLines, k \in {1, 2} }
      \cup { <<CoreLine(1, 1), ShortCpuLine("cpuN"), CoreLine(2, 2)>> }

\* The texts of /proc/stat the model reads: None is an unreadable file.
StatContents ==
    {None} \cup { Some(<<a>> \o cs \o <<IntrLine>>) : a \in AggLines, cs \in CoreSeqs }

MemLine(key, kb) == [key |-> key, pieces |-> 2, value |-> <<Some(kb), None>>]

MemContents ==
    { None,
      Some(<< MemLine("MemTotal", 8000), MemLine("MemFree", 1000),
              MemLine("MemAvailable", 6000), MemLine("Buffers", 100),
              MemLine("Cached", 700), MemLine("Active(anon)", 900),
              MemLine("Inactive(anon)", 300), MemLine("Shmem", 50),
              MemLine("Slab", 250) >>),
      Some(<< MemLine("MemTotal", 0), MemLine("MemAvailable", 0) >>),
      Some(<< MemLine("MemTotal", 4000), MemLine("Cached", 500),
              MemLine("Active(anon)", 700) >>) }

NetLine(name, rx, tx) ==
    [name |-> name, colons |-> 1,
     values |-> <<Some(rx), Some(1), Some(0), Some(0), Some(0), Some(0),
                  Some(0), Some(0), Some(tx), Some(1)>>]
NetHeader == [name |-> <<"f", "a", "c", "e">>, colons |-> 0, values |-> <<>>]
LoName == <<"l", "o">>
EthName == <<"e", "t", "h", "0">>
WloName == <<"w", "l", "o">>

NetContents ==
    { None,
      Some(<<NetHeader, NetLine(LoName, 7000, 7000), NetLine(EthName, 4096, 2048)>>),
      Some(<<NetHeader, NetLine(LoName, 9000, 9000), NetLine(EthName, 10240, 3072)>>),
      Some(<<NetHeader, NetLine(LoName, 9500, 9500), NetLine(EthName, 1024, 512),
             NetLine(WloName, 2048, 1024)>>) }

\* Time that passes between two ticks of a daemon, in milliseconds.
ElapsedChoices == {0, UPDATE_INTERVAL_MS}

NoReading == [stat |-> None, meminfo |-> None, netdev |-> None]

\* ------------------------------------------ the overlay widget (graph-window)
\* A text is [members, closed]: the members of the JSON object written so
\* far, and whether the object was written to its end.
\* stats-service main.rs, lines 44-59: the JSON type serde gives the field
\* of StatsHistory serialized under key; no field is an object.
HistoryKind(key) ==
    IF key \in {"memory_total", "last_update"} THEN "number" ELSE "array"

\* data.rs, line 63: serde_json::from_str(&history_json), and json!({}) for
\* a text that does not parse.
ParseOrEmpty(text) == IF text.closed THEN text.members ELSE <<>>

\* data.rs, lines 56 and 60: fs::read_to_string(history.json)
\* .unwrap_or_default(); file is what the daemon's history file holds.
FileText(file) == [members |-> file, closed |-> file # <<>>]

\* A mutation of load_history that prefers the file to the socket.
LoadHistoryFileFirst(connected, read, file) ==
    ParseOrEmpty(IF FileText(file).closed \/ ~connected \/ IsNone(read)
                 THEN FileText(file) ELSE Unwrap(read))

\* data.rs, lines 44-64, load_history: connected tells whether
\* UnixStream::connect succeeded, read is the text read_to_string
\* delivered, None when it failed.
LoadHistory(connected, read, file) ==
    ParseOrEmpty(IF connected /\ IsSome(read) THEN Unwrap(read)
                 ELSE FileText(file))

\* serde_json's history[key] on an object: None stands for Null.
Member(doc, key) ==
    IF \E i \in 1..Len(doc) : doc[i][1] = key
    THEN Some((CHOOSE m \in {doc[i] : i \in 1..Len(doc)} : m[1] = key)[2])
    ELSE None

\* ui.rs, line 161: history[k1][k2].as_f64(); indexing anything but an
\* object by a name gives Null.
AsF64At(doc, k1, k2) ==
    IF IsSome(Member(doc, k1)) /\ HistoryKind(k1) = "object"
    THEN Member(Unwrap(Member(doc, k1)), k2)
    ELSE None

\* ui.rs, lines 164-165: history[key].as_array() and its f64 elements.
AsArrayF64(doc, key) ==
    IF IsSome(Member(doc, key)) /\ HistoryKind(key) = "array"
    THEN Member(doc, key)
    ELSE None

\* data.rs, lines 31-42, and ui.rs, line 100: AdvancedMemoryData::new(60).
NewMemData ==
    [total |-> Zero, apps |-> Zeros(60), cached |-> Zeros(60),
     buffers |-> Zeros(60), slab |-> Zeros(60), shmem |-> Zeros(60)]

\* ui.rs, lines 159-178: the update of the memory chart data of a widget
\* configured with data_source "memory" and advanced.
UpdateMemData(m, history) ==
    [total   |-> IF IsSome(AsF64At(history, "memory", "total"))
                 THEN Unwrap(AsF64At(history, "memory", "total")) ELSE m.total,
     apps    |-> IF IsSome(AsArrayF64(history, "memory_apps"))
                 THEN Unwrap(AsArrayF64(history, "memory_apps")) ELSE m.apps,
     cached  |-> IF IsSome(AsArrayF64(history, "memory_cached"))
                 THEN Unwrap(AsArrayF64(history, "memory_cached"))
                 ELSE m.cached,
     buffers |-> IF IsSome(AsArrayF64(history, "memory_buffers"))
                 THEN Unwrap(AsArrayF64(history, "memory_buffers"))
                 ELSE m.buffers,
     slab    |-> IF IsSome(AsArrayF64(history, "memory_slab"))
                 THEN Unwrap(AsArrayF64(history, "memory_slab")) ELSE m.slab,
     shmem   |-> IF IsSome(AsArrayF64(history, "memory_shmem"))
                 THEN Unwrap(AsArrayF64(history, "memory_shmem"))
                 ELSE m.shmem]

\* ui.rs, lines 157-178: one run of the timeout callback, the widget w
\* after it.
Polled(w, connected, read, file) ==
    [mem_data |-> UpdateMemData(w.mem_data, LoadHistory(connected, read, file)),
     history  |-> LoadHistory(connected, read, file),
     source   |-> IF connected /\ IsSome(read) THEN "socket" ELSE "file"]

\* -------------------------------------------------------------------- Init
\* A connection that no client has made yet.
NoConn ==
    [state |-> "idle", server |-> 0, json |-> <<>>, received |-> <<>>,
     sends |-> 0, reads |-> 0, write_ok |-> TRUE, accept_errors |-> 0]

\* The PID marker file: None when absent, else its bytes; a byte is a
\* string of one character, "\n" the newline and "nul" a hole.
AbsentFile == None
EmptyFile == Some(<<>>)
GarbageText == Some(<<"x">>)
DigitChars == <<"0", "1", "2", "3", "4", "5", "6", "7", "8", "9">>

\* The "{}" of a u32: its decimal digits.
RECURSIVE DecimalText(_)
DecimalText(n) ==
    IF n < 10 THEN <<DigitChars[n + 1]>>
    ELSE DecimalText(n \div 10) \o <<DigitChars[(n % 10) + 1]>>

\* main, line 413: writeln!(pid_file, "{}", std::process::id()) writes the
\* digits and then the newline.
PidFileText(pid) == DecimalText(pid) \o <<"\n">>

\* What a file holds after bytes are written at an offset of it.
WriteAt(content, offset, bytes) ==
    [i \in 1..(IF Len(content) > offset + Len(bytes) THEN Len(content)
               ELSE offset + Len(bytes)) |->
        IF i > offset /\ i <= offset + Len(bytes) THEN bytes[i - offset]
        ELSE IF i <= Len(content) THEN content[i]
        ELSE "nul"]

\* str::trim: the text without its leading and trailing whitespace.
RECURSIVE TrimStart(_)
TrimStart(text) ==
    IF text # <<>> /\ Head(text) = "\n" THEN TrimStart(Tail(text)) ELSE text
RECURSIVE TrimEnd(_)
TrimEnd(text) ==
    IF text # <<>> /\ text[Len(text)] = "\n"
    THEN TrimEnd(SubSeq(text, 1, Len(text) - 1)) ELSE text
Trim(text) == TrimEnd(TrimStart(text))

IsDigit(ch) == \E d \in 1..10 : DigitChars[d] = ch
DigitValue(ch) == (CHOOSE d \in 1..10 : DigitChars[d] = ch) - 1
RECURSIVE DecimalValue(_)
DecimalValue(digits) ==
    IF digits = <<>> THEN 0
    ELSE 10 * DecimalValue(SubSeq(digits, 1, Len(digits) - 1))
         + DigitValue(digits[Len(digits)])

\* The pid of daemon process p (pids differ in their number of digits); the
\* pid of a daemon that died before the model starts; the pid of a live
\* process that is no daemon.
Pid(p) == IF p = 1 THEN 7 ELSE 100 * p
StalePid == 100 * MaxProcs + 1
ForeignPid == 100 * MaxProcs + 2

\* The holder of a process's history mutex.
Free == [kind |-> "free", conn |-> 0]
TickDriver == [kind |-> "tick", conn |-> 0]
Handler(c) == [kind |-> "handler", conn |-> c]

\* The host once daemon process 1 has passed startup: the data directory
\* exists, the marker holds the daemon's pid, no other file is there yet.
InitHost ==
    /\ dataDir = TRUE
    /\ marker = Some(PidFileText(Pid(1)))
    /\ live = {Pid(1)}
    /\ sockFile = 0
    /\ historyFile = <<>>
    /\ latestFile = <<>>
    /\ clock = 0

\* The memory of the processes: pc0 and hist0 give main's position and the
\* history of each, srv0 the position of its socket server task.
InitProcs(pc0, srv0, hist0) ==
    /\ pc = pc0
    /\ exitCode = [p \in Procs |-> 0]
    /\ readPid = [p \in Procs |-> None]
    /\ srv = srv0
    /\ hist = hist0
    /\ lock = [p \in Procs |-> Free]
    /\ PREV_CPU_VALUES = [p \in Procs |-> None]
    /\ PREV_CORE_VALUES = [p \in Procs |-> None]
    /\ PREV_NET_VALUES = [p \in Procs |-> None]
    /\ cpu_stats = [p \in Procs |-> None]
    /\ stats = [p \in Procs |-> None]
    /\ ticks = [p \in Procs |-> 0]
    /\ conn = [c \in Conns |-> NoConn]
    /\ touched = [p \in Procs |-> {}]
    /\ rawNow = [p \in Procs |-> None]
    /\ rawPrev = [p \in Procs |-> None]
    /\ recorded = [p \in Procs |-> <<>>]
    /\ committed = [p \in Procs |-> <<>>]
    /\ lastWrite = [p \in Procs |-> "none"]
    /\ widget = [mem_data |-> NewMemData, history |-> <<>>, source |-> "none"]

\* Process 1 has passed startup and constructed its history (main, line
\* 415); the other processes have not been started.
InitOneDaemon(srv1) ==
    /\ InitHost
    /\ InitProcs([p \in Procs |-> IF p = 1 THEN "tick_wait" ELSE "unstarted"],
                 [p \in Procs |-> IF p = 1 THEN srv1 ELSE "none"],
                 [p \in Procs |-> IF p = 1 THEN NewHistory(NumCores)
                                  ELSE NoHistory])

\* main's positions from the construction of the history on.
LoopStates ==
    {"tick_wait", "sample", "lock", "add_cpu", "add_mem", "add_net",
     "write_history", "unlock", "write_latest"}
Constructed(p) == pc[p] \in LoopStates

\* --------------------------------------------- StatsHistory on any samples
\* A sample whose fields all differ, built on the base value b, with n
\* per-core readings: values below 0 and above 100 included.
MkSample(b, n) ==
    [timestamp |-> 1000 + b,
     cpu_usage |-> F64(b + 1),
     cpu_cores |-> [i \in 1..n |-> F64(b + 10 + i)],
     cpu_iowait |-> F64(b + 2),
     memory |-> [total |-> F64(b + 4), available |-> F64(b + 5),
                 used_percentage |-> F64(b + 3), apps |-> F64(b + 6),
                 cached |-> F64(b + 7), buffers |-> F64(b + 8),
                 slab |-> F64(b + 9), shmem |-> F64(b + 10)],
     network_download |-> Rat(-(b + 1), 2),
     network_upload |-> Rat(b + 1, 3)]

SampleBases == {-200, 0, 300}
HarnessSamples == { MkSample(b, n) : b \in SampleBases, n \in 0..MaxCoreLines }

\* One call of add_stats on the history of process 1.
HistoryAddStats ==
    \E s \in HarnessSamples :
        /\ Len(recorded[1]) < MaxTicks
        /\ hist' = [hist EXCEPT ![1] = AddStats(@, s)]
        /\ recorded' = [recorded EXCEPT ![1] = Append(@, s)]
        /\ committed' = [committed EXCEPT ![1] = Append(@, hist'[1])]
        /\ UNCHANGED <<hostVars, mainVars, lock, PREV_CPU_VALUES,
                       PREV_CORE_VALUES, PREV_NET_VALUES, cpu_stats, stats,
                       ticks, conn, touched, rawNow, rawPrev, lastWrite,
                       widget>>

SpecHistory == InitOneDaemon("none") /\ [][HistoryAddStats]_vars

\* ------------------------------------------------ read_cpu_stats on any text
\* One call of read_cpu_stats by process 1 on any text of /proc/stat.
CpuCall ==
    \E content \in StatContents :
        LET r == ReadCpuStats(content, PREV_CPU_VALUES[1], PREV_CORE_VALUES[1])
        IN  /\ IsNone(cpu_stats[1])
            /\ cpu_stats' = [cpu_stats EXCEPT ![1] = Some(r.result)]
            /\ PREV_CPU_VALUES' = [PREV_CPU_VALUES EXCEPT ![1] = r.prev_cpu]
            /\ PREV_CORE_VALUES' = [PREV_CORE_VALUES EXCEPT ![1] = r.prev_cores]
            /\ rawNow' = [rawNow EXCEPT ![1] =
                             Some([NoReading EXCEPT !.stat = content])]
            /\ UNCHANGED <<hostVars, mainVars, hist, lock, PREV_NET_VALUES,
                           stats, ticks, conn, touched, rawPrev, recorded,
                           committed, lastWrite, widget>>

\* The caller drops the result; the text just read becomes the previous one.
CpuReturn ==
    /\ IsSome(cpu_stats[1])
    /\ cpu_stats' = [cpu_stats EXCEPT ![1] = None]
    /\ rawPrev' = [rawPrev EXCEPT ![1] = rawNow[1]]
    /\ rawNow' = [rawNow EXCEPT ![1] = None]
    /\ UNCHANGED <<hostVars, mainVars, hist, lock, PREV_CPU_VALUES,
                   PREV_CORE_VALUES, PREV_NET_VALUES, stats, ticks, conn,
                   touched, recorded, committed, lastWrite, widget>>

SpecCpu == InitOneDaemon("none") /\ [][CpuCall \/ CpuReturn]_vars

\* --------------------------------------------------- the sampler on its own
SamplerStats ==
    { None,
      Some(<<CpuLine("cpu", 100, 10, 50, 500, 10, 5, 5),
             CoreLine(1, 1), CoreLine(1, 2), IntrLine>>),
      Some(<<CpuLine("cpu", 300, 20, 70, 1200, 60, 15, 15),
             CoreLine(2, 1), CoreLine(2, 2), IntrLine>>),
      Some(<<CpuLine("cpu", 100, 10, 50, 500, 60, 5, 5),
             CoreLine(1, 1), CoreLine(1, 2), IntrLine>>),
      Some(<<ShortCpuLine("cpu"), CoreLine(2, 1), IntrLine>>) }

SamplerReadings ==
    [stat : SamplerStats, meminfo : MemContents, netdev : NetContents]

\* Lines 427-441 of one tick of process 1, on any reading: the timer fires
\* and the sample is taken; it is not recorded.
SamplerTick ==
    \E reading \in SamplerReadings, d \in ElapsedChoices :
        LET r == TakeSample(reading, clock + d, PREV_CPU_VALUES[1],
                            PREV_CORE_VALUES[1], PREV_NET_VALUES[1])
        IN  /\ IsNone(stats[1])
            /\ ticks[1] < MaxTicks
            /\ clock' = clock + d
            /\ ticks' = [ticks EXCEPT ![1] = @ + 1]
            /\ cpu_stats' = [cpu_stats EXCEPT ![1] = Some(r.cpu_stats)]
            /\ stats' = [stats EXCEPT ![1] = Some(r.stats)]
            /\ PREV_CPU_VALUES' = [PREV_CPU_VALUES EXCEPT ![1] = r.prev_cpu]
            /\ PREV_CORE_VALUES' = [PREV_CORE_VALUES EXCEPT ![1] = r.prev_cores]
            /\ PREV_NET_VALUES' = [PREV_NET_VALUES EXCEPT ![1] = r.prev_net]
            /\ rawNow' = [rawNow EXCEPT ![1] = Some(reading)]
            /\ UNCHANGED <<dataDir, marker, live, sockFile, historyFile,
                           latestFile, mainVars, hist, lock, conn, touched,
                           rawPrev, recorded, committed, lastWrite,
                           widget>>

\* The sample goes out of scope at the end of the loop body.
SamplerDone ==
    /\ IsSome(stats[1])
    /\ stats' = [stats EXCEPT ![1] = None]
    /\ cpu_stats' = [cpu_stats EXCEPT ![1] = None]
    /\ rawPrev' = [rawPrev EXCEPT ![1] = rawNow[1]]
    /\ rawNow' = [rawNow EXCEPT ![1] = None]
    /\ UNCHANGED <<hostVars, mainVars, hist, lock, PREV_CPU_VALUES,
                   PREV_CORE_VALUES, PREV_NET_VALUES, ticks, conn, touched,
                   recorded, committed, lastWrite, widget>>

SpecSampler == InitOneDaemon("none") /\ [][SamplerTick \/ SamplerDone]_vars

\* ================================================================ the daemon
baselineVars == <<PREV_CPU_VALUES, PREV_CORE_VALUES, PREV_NET_VALUES>>
sampleVars == <<cpu_stats, stats>>
fileVars == <<historyFile, latestFile>>
rawVars == <<rawNow, rawPrev>>
logVars == <<recorded, committed, lastWrite, widget>>

\* ------------------------------------------------- main: startup (390-424)
\* The operating system starts daemon process p.
Start(p) ==
    /\ pc[p] = "unstarted"
    /\ pc' = [pc EXCEPT ![p] = "mkdir"]
    /\ live' = live \cup {Pid(p)}
    /\ UNCHANGED <<dataDir, marker, sockFile, fileVars, clock, exitCode,
                   readPid, srv, tickVars, conn, ghostVars>>

\* Line 395: create_dir_all(DATA_DIR).expect(..): a failure panics.
CreateDataDir(p) ==
    /\ pc[p] = "mkdir"
    /\ \E ok \in BOOLEAN :
          IF ok
          THEN /\ dataDir' = TRUE
               /\ touched' = [touched EXCEPT ![p] =
                                 IF dataDir THEN @ ELSE @ \cup {"dir"}]
               /\ pc' = [pc EXCEPT ![p] = "pid_exists"]
               /\ UNCHANGED <<live, exitCode>>
          ELSE /\ pc' = [pc EXCEPT ![p] = "panicked"]
               /\ exitCode' = [exitCode EXCEPT ![p] = 101]
               /\ live' = live \ {Pid(p)}
               /\ UNCHANGED <<dataDir, touched>>
    /\ UNCHANGED <<marker, sockFile, fileVars, clock, readPid, srv, tickVars,
                   conn, rawVars, logVars>>

\* Line 399: Path::new(&pid_file).exists().
PidExists(p) ==
    /\ pc[p] = "pid_exists"
    /\ pc' = [pc EXCEPT ![p] =
                 IF IsSome(marker) THEN "pid_read" ELSE "pid_create"]
    /\ UNCHANGED <<hostVars, exitCode, readPid, srv, tickVars, conn, ghostVars>>

\* Line 401: pid_str.trim().parse::<u32>().
ParsePid(text) ==
    IF Trim(text) # <<>> /\ \A i \in 1..Len(Trim(text)) : IsDigit(Trim(text)[i])
    THEN Some(DecimalValue(Trim(text)))
    ELSE None

\* Lines 400-401: read the marker and parse it; an unreadable or unparsable
\* marker is skipped.
PidRead(p) ==
    /\ pc[p] = "pid_read"
    /\ \E readable \in BOOLEAN :
          IF readable /\ IsSome(ParsePid(Unwrap(marker)))
          THEN /\ readPid' = [readPid EXCEPT ![p] = ParsePid(Unwrap(marker))]
               /\ pc' = [pc EXCEPT ![p] = "proc_check"]
          ELSE /\ pc' = [pc EXCEPT ![p] = "pid_create"]
               /\ UNCHANGED readPid
    /\ UNCHANGED <<hostVars, exitCode, srv, tickVars, conn, ghostVars>>

\* A mutation of the liveness test that never finds the pid.
AlreadyRunningNever(pid, livePids) == FALSE

\* Line 403: Path::new(&format!("/proc/{}", pid)).exists().
AlreadyRunning(pid, livePids) == pid \in livePids

\* Lines 403-406: exit(1) when the recorded pid is live.
ProcCheck(p) ==
    /\ pc[p] = "proc_check"
    /\ IF AlreadyRunning(Unwrap(readPid[p]), live)
       THEN /\ pc' = [pc EXCEPT ![p] = "exited"]
            /\ exitCode' = [exitCode EXCEPT ![p] = 1]
            /\ live' = live \ {Pid(p)}
       ELSE /\ pc' = [pc EXCEPT ![p] = "pid_create"]
            /\ UNCHANGED <<exitCode, live>>
    /\ UNCHANGED <<dataDir, marker, sockFile, fileVars, clock, readPid, srv,
                   tickVars, conn, ghostVars>>

\* Line 412: File::create(&pid_file).expect(..) truncates the marker.
PidCreate(p) ==
    /\ pc[p] = "pid_create"
    /\ \E ok \in BOOLEAN :
          IF ok
          THEN /\ marker' = EmptyFile
               /\ touched' = [touched EXCEPT ![p] = @ \cup {"marker"}]
               /\ pc' = [pc EXCEPT ![p] = "pid_write"]
               /\ UNCHANGED <<live, exitCode>>
          ELSE /\ pc' = [pc EXCEPT ![p] = "panicked"]
               /\ exitCode' = [exitCode EXCEPT ![p] = 101]
               /\ live' = live \ {Pid(p)}
               /\ UNCHANGED <<marker, touched>>
    /\ UNCHANGED <<dataDir, sockFile, fileVars, clock, readPid, srv, tickVars,
                   conn, rawVars, logVars>>

\* What the marker holds after the process, which has written `written`
\* bytes since it created the file, writes some more.
MarkerAfter(content, written, bytes) ==
    Some(WriteAt(content, written, bytes))

\* Line 413: writeln!(..).expect(..): the write of the digits of the
\* process's own pid.
PidWrite(p) ==
    /\ pc[p] = "pid_write"
    /\ \E ok \in BOOLEAN :
          IF ok
          THEN /\ marker' = MarkerAfter(Unwrap(marker), 0, DecimalText(Pid(p)))
               /\ pc' = [pc EXCEPT ![p] = "pid_newline"]
               /\ UNCHANGED <<live, exitCode>>
          ELSE /\ pc' = [pc EXCEPT ![p] = "panicked"]
               /\ exitCode' = [exitCode EXCEPT ![p] = 101]
               /\ live' = live \ {Pid(p)}
               /\ UNCHANGED marker
    /\ UNCHANGED <<dataDir, sockFile, fileVars, clock, readPid, srv, tickVars,
                   conn, ghostVars>>

\* Line 413: writeln!(..).expect(..): the write of the newline.
PidNewline(p) ==
    /\ pc[p] = "pid_newline"
    /\ \E ok \in BOOLEAN :
          IF ok
          THEN /\ marker' = MarkerAfter(Unwrap(marker),
                                       Len(DecimalText(Pid(p))), <<"\n">>)
               /\ pc' = [pc EXCEPT ![p] = "construct"]
               /\ UNCHANGED <<live, exitCode>>
          ELSE /\ pc' = [pc EXCEPT ![p] = "panicked"]
               /\ exitCode' = [exitCode EXCEPT ![p] = 101]
               /\ live' = live \ {Pid(p)}
               /\ UNCHANGED marker
    /\ UNCHANGED <<dataDir, sockFile, fileVars, clock, readPid, srv, tickVars,
                   conn, ghostVars>>

\* Lines 415-424: construct the history, spawn the socket server, create
\* the interval.
Construct(p) ==
    /\ pc[p] = "construct"
    /\ hist' = [hist EXCEPT ![p] = NewHistory(NumCores)]
    /\ srv' = [srv EXCEPT ![p] = "start"]
    /\ pc' = [pc EXCEPT ![p] = "tick_wait"]
    /\ UNCHANGED <<hostVars, exitCode, readPid, lock, baselineVars, sampleVars,
                   ticks, conn, ghostVars>>

\* The process is killed between two ticks: the daemon has no shutdown
\* path, its files stay and its memory is gone.
Crash(p) ==
    /\ pc[p] = "tick_wait"
    /\ pc' = [pc EXCEPT ![p] = "dead"]
    /\ srv' = [srv EXCEPT ![p] = "dead"]
    /\ live' = live \ {Pid(p)}
    /\ hist' = [hist EXCEPT ![p] = NoHistory]
    /\ lock' = [lock EXCEPT ![p] = Free]
    /\ PREV_CPU_VALUES' = [PREV_CPU_VALUES EXCEPT ![p] = None]
    /\ PREV_CORE_VALUES' = [PREV_CORE_VALUES EXCEPT ![p] = None]
    /\ PREV_NET_VALUES' = [PREV_NET_VALUES EXCEPT ![p] = None]
    /\ cpu_stats' = [cpu_stats EXCEPT ![p] = None]
    /\ stats' = [stats EXCEPT ![p] = None]
    /\ rawPrev' = [rawPrev EXCEPT ![p] = None]
    /\ recorded' = [recorded EXCEPT ![p] = <<>>]
    /\ committed' = [committed EXCEPT ![p] = <<>>]
    /\ lastWrite' = [lastWrite EXCEPT ![p] = "none"]
    /\ UNCHANGED <<dataDir, marker, sockFile, fileVars, clock, exitCode,
                   readPid, ticks, conn, touched, rawNow, widget>>

\* ------------------------------------------------ main: the loop (426-475)
\* Line 427: interval.tick().await completes, d ms after the previous tick.
TimerFire(p, elapsed, limit) ==
    /\ pc[p] = "tick_wait"
    /\ ticks[p] < limit
    /\ \E d \in elapsed : clock' = clock + d
    /\ ticks' = [ticks EXCEPT ![p] = @ + 1]
    /\ pc' = [pc EXCEPT ![p] = "sample"]
    /\ UNCHANGED <<dataDir, marker, live, sockFile, fileVars, exitCode,
                   readPid, srv, hist, lock, baselineVars, sampleVars, conn,
                   ghostVars>>

\* Lines 429-441: the three readers and the sample.
TickSample(p, readings) ==
    /\ pc[p] = "sample"
    /\ \E reading \in readings :
          LET r == TakeSample(reading, clock, PREV_CPU_VALUES[p],
                              PREV_CORE_VALUES[p], PREV_NET_VALUES[p])
          IN  /\ cpu_stats' = [cpu_stats EXCEPT ![p] = Some(r.cpu_stats)]
              /\ stats' = [stats EXCEPT ![p] = Some(r.stats)]
              /\ PREV_CPU_VALUES' = [PREV_CPU_VALUES EXCEPT ![p] = r.prev_cpu]
              /\ PREV_CORE_VALUES' = [PREV_CORE_VALUES EXCEPT ![p] = r.prev_cores]
              /\ PREV_NET_VALUES' = [PREV_NET_VALUES EXCEPT ![p] = r.prev_net]
              /\ rawNow' = [rawNow EXCEPT ![p] = Some(reading)]
    /\ pc' = [pc EXCEPT ![p] = "lock"]
    /\ UNCHANGED <<hostVars, exitCode, readPid, srv, hist, lock, ticks, conn,
                   touched, rawPrev, logVars>>

\* A mutation of the mutex that lets a second task in.
LockAlwaysAvailable(holder) == TRUE

\* tokio::sync::Mutex: lock().await completes when no task holds the guard.
LockAvailable(holder) == holder = Free

\* Line 445: history.lock().await.
TickLock(p) ==
    /\ pc[p] = "lock"
    /\ LockAvailable(lock[p])
    /\ lock' = [lock EXCEPT ![p] = TickDriver]
    /\ pc' = [pc EXCEPT ![p] = "add_cpu"]
    /\ UNCHANGED <<hostVars, exitCode, readPid, srv, hist, baselineVars,
                   sampleVars, ticks, conn, ghostVars>>

\* Line 446, add_stats lines 107-114.
TickAddCpu(p) ==
    /\ pc[p] = "add_cpu"
    /\ hist' = [hist EXCEPT ![p] = AddStatsCpu(@, Unwrap(stats[p]))]
    /\ pc' = [pc EXCEPT ![p] = "add_mem"]
    /\ UNCHANGED <<hostVars, exitCode, readPid, srv, lock, baselineVars,
                   sampleVars, ticks, conn, ghostVars>>

\* Line 446, add_stats lines 116-122.
TickAddMem(p) ==
    /\ pc[p] = "add_mem"
    /\ hist' = [hist EXCEPT ![p] = AddStatsMem(@, Unwrap(stats[p]))]
    /\ pc' = [pc EXCEPT ![p] = "add_net"]
    /\ UNCHANGED <<hostVars, exitCode, readPid, srv, lock, baselineVars,
                   sampleVars, ticks, conn, ghostVars>>

\* Line 446, add_stats lines 123-125: the call is complete.
TickAddNet(p) ==
    /\ pc[p] = "add_net"
    /\ hist' = [hist EXCEPT ![p] = AddStatsNet(@, Unwrap(stats[p]))]
    /\ recorded' = [recorded EXCEPT ![p] = Append(@, Unwrap(stats[p]))]
    /\ committed' = [committed EXCEPT ![p] = Append(@, hist'[p])]
    /\ pc' = [pc EXCEPT ![p] = "write_history"]
    /\ UNCHANGED <<hostVars, exitCode, readPid, srv, lock, baselineVars,
                   sampleVars, ticks, conn, touched, rawVars, lastWrite,
                   widget>>

\* What a file holds after File::create and write_all of text: the text, the
\* old content when the file could not be created, nothing when the write
\* failed after the truncation.
FileAfterWrite(old, text, outcome) ==
    IF outcome = "ok" THEN text
    ELSE IF outcome = "create_failed" THEN old
    ELSE <<>>

WriteOutcomes == {"ok", "create_failed", "write_failed"}

\* A mutation of the loop that leaves the history file as it is.
TickWriteHistoryOmitted(p, outcomes) ==
    /\ pc[p] = "write_history"
    /\ pc' = [pc EXCEPT ![p] = "unlock"]
    /\ UNCHANGED <<hostVars, exitCode, readPid, srv, tickVars, conn,
                   ghostVars>>

\* A mutation of the loop in which a failed write_history ends the pass of
\* the loop body.
TickWriteHistoryOrSkip(p, outcomes) ==
    /\ pc[p] = "write_history"
    /\ \E outcome \in outcomes :
          /\ historyFile' = FileAfterWrite(historyFile, HistoryToJson(hist[p]),
                                           outcome)
          /\ touched' = [touched EXCEPT ![p] =
                            IF outcome = "create_failed" THEN @
                            ELSE @ \cup {"history"}]
          /\ lastWrite' = [lastWrite EXCEPT ![p] = outcome]
          /\ pc' = [pc EXCEPT ![p] = IF outcome = "ok" THEN "unlock"
                                     ELSE "tick_wait"]
          /\ lock' = [lock EXCEPT ![p] = IF outcome = "ok" THEN @ ELSE Free]
    /\ UNCHANGED <<dataDir, marker, live, sockFile, latestFile, clock,
                   exitCode, readPid, srv, hist, baselineVars, sampleVars,
                   ticks, conn, rawVars, recorded, committed,
                   widget>>

\* Line 449: write_history(&hist), still under the guard; an error is
\* printed and ignored.
TickWriteHistory(p, outcomes) ==
    /\ pc[p] = "write_history"
    /\ \E outcome \in outcomes :
          /\ historyFile' = FileAfterWrite(historyFile, HistoryToJson(hist[p]),
                                           outcome)
          /\ touched' = [touched EXCEPT ![p] =
                            IF outcome = "create_failed" THEN @
                            ELSE @ \cup {"history"}]
          /\ lastWrite' = [lastWrite EXCEPT ![p] = outcome]
    /\ pc' = [pc EXCEPT ![p] = "unlock"]
    /\ UNCHANGED <<dataDir, marker, live, sockFile, latestFile, clock,
                   exitCode, readPid, srv, tickVars, conn, rawVars, recorded,
                   committed, widget>>

\* Line 452: the guard goes out of scope.
TickUnlock(p) ==
    /\ pc[p] = "unlock"
    /\ lock' = [lock EXCEPT ![p] = Free]
    /\ pc' = [pc EXCEPT ![p] = "write_latest"]
    /\ UNCHANGED <<hostVars, exitCode, readPid, srv, hist, baselineVars,
                   sampleVars, ticks, conn, ghostVars>>

\* Lines 454-475: write_latest(&stats); the sample is printed and dropped.
TickWriteLatest(p, outcomes) ==
    /\ pc[p] = "write_latest"
    /\ \E outcome \in outcomes :
          /\ latestFile' = FileAfterWrite(latestFile,
                                          StatsToJson(Unwrap(stats[p])), outcome)
          /\ touched' = [touched EXCEPT ![p] =
                            IF outcome = "create_failed" THEN @
                            ELSE @ \cup {"latest"}]
    /\ stats' = [stats EXCEPT ![p] = None]
    /\ cpu_stats' = [cpu_stats EXCEPT ![p] = None]
    /\ rawPrev' = [rawPrev EXCEPT ![p] = rawNow[p]]
    /\ rawNow' = [rawNow EXCEPT ![p] = None]
    /\ pc' = [pc EXCEPT ![p] = "tick_wait"]
    /\ UNCHANGED <<dataDir, marker, live, sockFile, historyFile, clock,
                   exitCode, readPid, srv, hist, lock, baselineVars, ticks,
                   conn, logVars>>

\* --------------------------------------------- run_socket_server (361-388)
\* Line 363: let _ = fs::remove_file(SOCKET_PATH).
ServerRemove(p) ==
    /\ srv[p] = "start"
    /\ \E ok \in BOOLEAN :
          /\ sockFile' = IF ok THEN 0 ELSE sockFile
          /\ touched' = [touched EXCEPT ![p] =
                            IF ok /\ sockFile # 0 THEN @ \cup {"socket"} ELSE @]
    /\ srv' = [srv EXCEPT ![p] = "bind"]
    /\ UNCHANGED <<dataDir, marker, live, fileVars, clock, pc, exitCode,
                   readPid, tickVars, conn, rawVars, logVars>>

\* A mutation of run_socket_server that ends the process when the bind
\* fails.
ServerBindOrExit(p) ==
    /\ srv[p] = "bind"
    /\ \E ok \in BOOLEAN :
          IF ok /\ sockFile = 0
          THEN /\ sockFile' = Pid(p)
               /\ touched' = [touched EXCEPT ![p] = @ \cup {"socket"}]
               /\ srv' = [srv EXCEPT ![p] = "accept"]
               /\ UNCHANGED pc
          ELSE /\ srv' = [srv EXCEPT ![p] = "failed"]
               /\ pc' = [pc EXCEPT ![p] = "exited"]
               /\ UNCHANGED <<sockFile, touched>>
    /\ UNCHANGED <<dataDir, marker, live, fileVars, clock, exitCode,
                   readPid, tickVars, conn, rawVars, logVars>>

\* Lines 365-371: UnixListener::bind; on an error the task returns.  The
\* bind fails when a file is at the path, and may fail for other reasons.
ServerBind(p) ==
    /\ srv[p] = "bind"
    /\ \E ok \in BOOLEAN :
          IF ok /\ sockFile = 0
          THEN /\ sockFile' = Pid(p)
               /\ touched' = [touched EXCEPT ![p] = @ \cup {"socket"}]
               /\ srv' = [srv EXCEPT ![p] = "accept"]
          ELSE /\ srv' = [srv EXCEPT ![p] = "failed"]
               /\ UNCHANGED <<sockFile, touched>>
    /\ UNCHANGED <<dataDir, marker, live, fileVars, clock, pc, exitCode,
                   readPid, tickVars, conn, rawVars, logVars>>

\* A client connects to the socket path: the connection waits in the
\* backlog of the listener bound there.
ClientConnect(c) ==
    /\ conn[c].state = "idle"
    /\ \E p \in Procs :
          /\ sockFile = Pid(p)
          /\ srv[p] = "accept"
          /\ conn' = [conn EXCEPT ![c] = [@ EXCEPT !.state = "queued",
                                                   !.server = p]]
    /\ UNCHANGED <<hostVars, mainVars, tickVars, ghostVars>>

\* Lines 376-382: accept, and spawn handle_client on the stream.
Accept(c) ==
    /\ conn[c].state = "queued"
    /\ srv[conn[c].server] = "accept"
    /\ conn' = [conn EXCEPT ![c].state = "lock"]
    /\ UNCHANGED <<hostVars, mainVars, tickVars, ghostVars>>

\* A mutation of the accept loop that returns on an accept error.
AcceptErrorEndsServer(c) ==
    /\ conn[c].state = "queued"
    /\ srv[conn[c].server] = "accept"
    /\ conn[c].accept_errors < MaxAcceptErrors
    /\ conn' = [conn EXCEPT ![c] = [@ EXCEPT !.accept_errors = @ + 1]]
    /\ srv' = [srv EXCEPT ![conn[c].server] = "failed"]
    /\ UNCHANGED <<hostVars, pc, exitCode, readPid, tickVars, ghostVars>>

\* Lines 383-385: listener.accept() returns an error, which is printed; the
\* loop goes on.  The connection the error was reported for stays in the
\* backlog or is gone.
AcceptError(c) ==
    /\ conn[c].state = "queued"
    /\ srv[conn[c].server] = "accept"
    /\ conn[c].accept_errors < MaxAcceptErrors
    /\ \E pending \in BOOLEAN :
          conn' = [conn EXCEPT ![c] =
                      [@ EXCEPT !.accept_errors = @ + 1,
                                !.state = IF pending THEN "queued" ELSE "idle",
                                !.server = IF pending THEN @ ELSE 0]]
    /\ UNCHANGED <<hostVars, mainVars, tickVars, ghostVars>>

\* ------------------------------------------------- handle_client (347-359)
\* Line 349: history.lock().await.
HandlerLock(c) ==
    /\ conn[c].state = "lock"
    /\ LockAvailable(lock[conn[c].server])
    /\ lock' = [lock EXCEPT ![conn[c].server] = Handler(c)]
    /\ conn' = [conn EXCEPT ![c].state = "serialize"]
    /\ UNCHANGED <<hostVars, mainVars, hist, baselineVars, sampleVars, ticks,
                   ghostVars>>

\* A mutation of handle_client that takes a network reading of its own and
\* so replaces the network baseline.
HandlerSerializeSampling(c) ==
    /\ conn[c].state = "serialize"
    /\ conn' = [conn EXCEPT ![c] =
                   [@ EXCEPT !.state = "unlock",
                             !.json = HistoryToJson(hist[conn[c].server])]]
    /\ PREV_NET_VALUES' = [PREV_NET_VALUES EXCEPT ![conn[c].server] =
                              NetBaseline(0, 0, clock)]
    /\ UNCHANGED <<hostVars, mainVars, hist, lock, PREV_CPU_VALUES,
                   PREV_CORE_VALUES, sampleVars, ticks, ghostVars>>

\* Line 350: serde_json::to_string(&*hist).
HandlerSerialize(c) ==
    /\ conn[c].state = "serialize"
    /\ conn' = [conn EXCEPT ![c] =
                   [@ EXCEPT !.state = "unlock",
                             !.json = HistoryToJson(hist[conn[c].server])]]
    /\ UNCHANGED <<hostVars, mainVars, tickVars, ghostVars>>

\* A mutation of handle_client that keeps the guard across the write.
HandlerUnlockLate(c) ==
    /\ conn[c].state = "unlock"
    /\ conn' = [conn EXCEPT ![c].state = "write"]
    /\ UNCHANGED <<hostVars, mainVars, tickVars, ghostVars>>

\* Line 351: drop(hist).
HandlerUnlock(c) ==
    /\ conn[c].state = "unlock"
    /\ lock' = [lock EXCEPT ![conn[c].server] = Free]
    /\ conn' = [conn EXCEPT ![c].state = "write"]
    /\ UNCHANGED <<hostVars, mainVars, hist, baselineVars, sampleVars, ticks,
                   ghostVars>>

\* The numbers of JSON members that reach the client when write_all fails.
PartialLengths == {4}

\* stream.write_all(json): what the client has received after the call; the
\* whole text when it succeeds, the first k members when it fails.
WriteAll(received, json, ok, k) ==
    received \o (IF ok THEN json ELSE SubSeq(json, 1, k))

\* A mutation of handle_client whose write error ends the server task.
HandlerWriteFatal(c) ==
    /\ conn[c].state = "write"
    /\ \E ok \in BOOLEAN, k \in PartialLengths :
          /\ conn' = [conn EXCEPT ![c] =
                         [@ EXCEPT !.state = "shutdown",
                                   !.received = WriteAll(@, conn[c].json, ok, k),
                                   !.sends = @ + 1,
                                   !.write_ok = ok]]
          /\ srv' = [srv EXCEPT ![conn[c].server] =
                        IF ok THEN @ ELSE "failed"]
    /\ UNCHANGED <<hostVars, pc, exitCode, readPid, tickVars, ghostVars>>

\* Lines 353-355: write_all; an error is printed and ignored.
HandlerWrite(c) ==
    /\ conn[c].state = "write"
    /\ \E ok \in BOOLEAN, k \in PartialLengths :
          /\ conn' = [conn EXCEPT ![c] =
                         [@ EXCEPT !.state = "shutdown",
                                   !.received = WriteAll(@, conn[c].json, ok, k),
                                   !.sends = @ + 1,
                                   !.write_ok = ok]]
    /\ UNCHANGED <<hostVars, mainVars, tickVars, ghostVars>>

\* Line 358: stream.shutdown(); the client sees the end of the stream.
HandlerShutdown(c) ==
    /\ conn[c].state = "shutdown"
    /\ conn' = [conn EXCEPT ![c].state = "closed"]
    /\ UNCHANGED <<hostVars, mainVars, tickVars, ghostVars>>

\* ------------------------------------------------ the widget's poll (ui.rs)
\* data.rs, lines 45 and 58-61: nobody listens at the socket path, the
\* connect fails and the poll reads the history file.
WidgetConnectFailed(c) ==
    /\ conn[c].state = "idle"
    /\ ~\E p \in Procs : sockFile = Pid(p) /\ srv[p] = "accept"
    /\ widget' = Polled(widget, FALSE, None, historyFile)
    /\ UNCHANGED <<hostVars, mainVars, tickVars, conn, touched, rawVars,
                   recorded, committed, lastWrite>>

\* data.rs, lines 45-57: the widget is the client of connection c;
\* read_to_string returns at the end of the stream with what the handler
\* has sent, or fails.
WidgetRead(c) ==
    /\ conn[c].state = "closed"
    /\ \E ok \in BOOLEAN :
          widget' = Polled(widget, TRUE,
                           IF ok THEN Some([members |-> conn[c].received,
                                            closed |-> conn[c].write_ok])
                           ELSE None,
                           historyFile)
    /\ conn' = [conn EXCEPT ![c] = NoConn]
    /\ UNCHANGED <<hostVars, mainVars, tickVars, touched, rawVars, recorded,
                   committed, lastWrite>>

\* ---------------------------------------------------------- specifications
\* The proc files of a host with NumCores cores at its k-th counter state.
StatOf(k) ==
    Some(<< IF k = 1 THEN CpuLine("cpu", 100, 10, 50, 500, 10, 5, 5)
            ELSE CpuLine("cpu", 300, 20, 70, 1200, 60, 15, 15) >>
         \o [i \in 1..NumCores |-> CoreLine(k, i)] \o <<IntrLine>>)
MemOf(k) ==
    Some(<< MemLine("MemTotal", 8000), MemLine("MemAvailable", 8000 - 2000 * k),
            MemLine("Buffers", 100 * k), MemLine("Cached", 700 * k),
            MemLine("Active(anon)", 900 * k), MemLine("Inactive(anon)", 300),
            MemLine("Shmem", 50 * k), MemLine("Slab", 250 * k) >>)
NetOf(k) ==
    Some(<<NetHeader, NetLine(LoName, 7000 * k, 7000 * k),
           NetLine(EthName, 4096 * k * k, 2048 * k)>>)
ReadingOf(k) == [stat |-> StatOf(k), meminfo |-> MemOf(k), netdev |-> NetOf(k)]

\* The proc files the ticks of the running daemon may read.
DaemonReadings == {ReadingOf(1), ReadingOf(2)}

\* Lines 429-475: one pass of the loop body.
TickBody(p, readings, outcomes) ==
    \/ TickSample(p, readings)
    \/ TickLock(p)
    \/ TickAddCpu(p)
    \/ TickAddMem(p)
    \/ TickAddNet(p)
    \/ TickWriteHistory(p, outcomes)
    \/ TickUnlock(p)
    \/ TickWriteLatest(p, outcomes)

\* Lines 426-475: the loop of main.
Tick(p, readings, elapsed, limit, outcomes) ==
    \/ TimerFire(p, elapsed, limit)
    \/ TickBody(p, readings, outcomes)

Server(p) == ServerRemove(p) \/ ServerBind(p)

Client(c) ==
    \/ ClientConnect(c)
    \/ Accept(c)
    \/ HandlerLock(c)
    \/ HandlerSerialize(c)
    \/ HandlerUnlock(c)
    \/ HandlerWrite(c)
    \/ HandlerShutdown(c)

\* Process 1 has passed startup: its pid is in the marker, its history is
\* constructed and its socket server task is spawned.
Init == InitOneDaemon("start")

Next ==
    \/ Tick(1, DaemonReadings, {UPDATE_INTERVAL_MS}, MaxTicks, {"ok"})
    \/ Server(1)
    \/ \E c \in Conns : Client(c)

Spec == Init /\ [][Next]_vars

\* ------------------------------------------------------------- scheduling
\* The step of main from the sampling (lines 429-441) to the lock: the
\* TickSample step, named by the positions only.
SampleStep(p) == pc[p] = "sample" /\ pc' = [pc EXCEPT ![p] = "lock"]

\* The tokio runtime polls every task that is ready, and its Mutex hands the
\* lock to the waiters in the order they asked: the tick driver, the server
\* task and every handler take each step they are ready for, and a task
\* that waits for the lock gets it.  Nothing makes a client connect or read
\* its socket: a handler may stay in write_all for ever.
Fairness ==
    /\ WF_vars(TimerFire(1, {UPDATE_INTERVAL_MS}, MaxTicks))
    /\ WF_pc(SampleStep(1))
    /\ SF_vars(TickLock(1))
    /\ WF_vars(TickAddCpu(1) \/ TickAddMem(1) \/ TickAddNet(1)
                 \/ TickWriteHistory(1, {"ok"}) \/ TickUnlock(1)
                 \/ TickWriteLatest(1, {"ok"}))
    /\ WF_vars(Server(1))
    /\ \A c \in Conns :
          /\ WF_vars(Accept(c))
          /\ SF_vars(HandlerLock(c))
          /\ WF_vars(HandlerSerialize(c))
          /\ WF_vars(HandlerUnlock(c))

SpecFair == Init /\ [][Next]_vars /\ Fairness

\* ------------------------------------------------------------ the startup
\* The hosts a daemon may be started on: a fresh host, an empty data
\* directory, a marker that is no number, a marker and a socket file left by
\* a daemon that died, a marker that names a live process.
GuardHosts ==
    { [dataDir |-> FALSE, marker |-> AbsentFile, sockFile |-> 0],
      [dataDir |-> TRUE, marker |-> AbsentFile, sockFile |-> 0],
      [dataDir |-> TRUE, marker |-> GarbageText, sockFile |-> 0],
      [dataDir |-> TRUE, marker |-> Some(PidFileText(StalePid)), sockFile |-> StalePid],
      [dataDir |-> TRUE, marker |-> Some(PidFileText(ForeignPid)), sockFile |-> 0] }

InitGuard ==
    /\ \E h \in GuardHosts :
          /\ dataDir = h.dataDir
          /\ marker = h.marker
          /\ sockFile = h.sockFile
    /\ live = {ForeignPid}
    /\ historyFile = <<>>
    /\ latestFile = <<>>
    /\ clock = 0
    /\ InitProcs([p \in Procs |-> "unstarted"], [p \in Procs |-> "none"],
                 [p \in Procs |-> NoHistory])

Startup(p) ==
    \/ Start(p)
    \/ CreateDataDir(p)
    \/ PidExists(p)
    \/ PidRead(p)
    \/ ProcCheck(p)
    \/ PidCreate(p)
    \/ PidWrite(p)
    \/ PidNewline(p)
    \/ Construct(p)
    \/ Crash(p)

\* The start attempts of the daemons in any interleaving; a daemon that has
\* passed startup runs its socket server up to the accept loop, or until it
\* gives up, and then its first tick, which the interval completes at once.
NextGuard ==
    \E p \in Procs :
        \/ Startup(p)
        \/ Server(p)
        \/ srv[p] \in {"accept", "failed"} /\ TimerFire(p, {0}, 1)
        \/ TickBody(p, {ReadingOf(1)}, {"ok"})

SpecGuard == InitGuard /\ [][NextGuard]_vars

\* ------------------------------------------------- the loop on bad sources
\* The proc files a tick may find: each of the three unreadable, as in
\* ReadingOf, or readable with a text the reader cannot use: a /proc/stat
\* whose aggregate line has a token that is no number, a /proc/meminfo whose
\* only line has no colon, a /proc/net/dev cut after its header.
DegradedReadings ==
    [stat : {None, StatOf(1), StatOf(2),
             Some(<< [label |-> "cpu",
                      parts |-> <<None, Some(20), Some(70), Some(1200),
                                  Some(60), Some(15), Some(15)>>] >>
                  \o [i \in 1..NumCores |-> CoreLine(2, i)] \o <<IntrLine>>)},
     meminfo : {None, MemOf(1),
                Some(<< [key |-> "MemTotal", pieces |-> 1, value |-> <<>>] >>)},
     netdev : {None, NetOf(1), Some(<<NetHeader>>)}]

\* The loop of main alone, on any such files.
NextDegraded ==
    Tick(1, DegradedReadings, {UPDATE_INTERVAL_MS}, MaxTicks, {"ok"})

SpecDegraded == InitOneDaemon("none") /\ [][NextDegraded]_vars

\* ---------------------------------------------- the loop on failing writes
\* The loop of main alone, each of its two file writes succeeding or
\* failing at File::create or at write_all.
NextPersist ==
    Tick(1, DaemonReadings, {UPDATE_INTERVAL_MS}, MaxTicks, WriteOutcomes)

\* The tick driver is the only task: it takes every step it is ready for.
FairPersist ==
    /\ WF_vars(TimerFire(1, {UPDATE_INTERVAL_MS}, MaxTicks))
    /\ WF_pc(SampleStep(1))
    /\ WF_vars(TickLock(1) \/ TickAddCpu(1) \/ TickAddMem(1) \/ TickAddNet(1)
                 \/ TickWriteHistory(1, WriteOutcomes) \/ TickUnlock(1)
                 \/ TickWriteLatest(1, WriteOutcomes))

SpecPersist == InitOneDaemon("none") /\ [][NextPersist]_vars /\ FairPersist

\* ------------------------------------ failing writes while a client is served
\* The daemon as in Next with one client, each of the two file writes
\* succeeding or failing.
NextServed ==
    \/ Tick(1, DaemonReadings, {UPDATE_INTERVAL_MS}, MaxTicks, WriteOutcomes)
    \/ Server(1)
    \/ Client(1)

SpecServed == Init /\ [][NextServed]_vars

\* ------------------------------------------------- accepts that may fail
\* The daemon as in Next with one client, whose connection attempts may
\* meet accept errors.
NextAccept ==
    \/ Tick(1, DaemonReadings, {UPDATE_INTERVAL_MS}, MaxTicks, {"ok"})
    \/ Server(1)
    \/ Client(1)
    \/ AcceptError(1)

SpecAccept == Init /\ [][NextAccept]_vars

\* ------------------------------------------------- the daemon and the widget
\* The daemon as in Next, its file writes succeeding or failing, with the
\* widget as its one client.
NextWidget ==
    \/ Tick(1, DaemonReadings, {UPDATE_INTERVAL_MS}, MaxTicks, WriteOutcomes)
    \/ Server(1)
    \/ Client(1)
    \/ WidgetConnectFailed(1)
    \/ WidgetRead(1)

SpecWidget == Init /\ [][NextWidget]_vars

\* ================================================================== claims
\* ---------------------------------------------------------------------- C1
BufferLengthsOf(h) ==
    { Len(GlobalBuffers(h)[f]) : f \in 1..10 }
      \cup { Len(h.cpu_cores[c]) : c \in DOMAIN h.cpu_cores }

\* C1: once a process has constructed its history, every global metric
\* buffer and every per-core buffer has length exactly HISTORY_SIZE (60),
\* after any sequence of add_stats calls on any samples, whatever the values
\* and whatever the number of per-core readings.
C1_BuffersAlwaysFull ==
    \A p \in Procs :
        Constructed(p) => BufferLengthsOf(hist[p]) = {HISTORY_SIZE}

\* Two add_stats calls have run, one with more per-core readings than there
\* are buffers and one with fewer, and the newest overall value is not 0.
C1_Witness ==
    /\ Len(recorded[1]) >= 2
    /\ \E i, j \in 1..Len(recorded[1]) :
          /\ Len(recorded[1][i].cpu_cores) > NumCores
          /\ Len(recorded[1][j].cpu_cores) < NumCores
    /\ hist[1].cpu[HISTORY_SIZE] # Zero
    /\ BufferLengthsOf(hist[1]) = {HISTORY_SIZE}

\* ---------------------------------------------------------------------- C7
LastN(seq, n) == SubSeq(seq, Len(seq) - n + 1, Len(seq))

\* The fields of a sample that go into the global buffers, in the order of
\* GlobalBuffers.
SampleFields(s) ==
    << s.cpu_usage, s.cpu_iowait, s.memory.used_percentage, s.memory.apps,
       s.memory.cached, s.memory.buffers, s.memory.slab, s.memory.shmem,
       s.network_download, s.network_upload >>

\* The last 60 elements of 60 zeros followed by field f of the samples.
ExpectedBuffer(samples, f) ==
    LastN(Zeros(60) \o [k \in 1..Len(samples) |-> SampleFields(samples[k])[f]],
          60)

\* C7: after k add_stats calls with samples s1..sk, each global metric
\* buffer equals the last 60 elements of 60 zeros followed by the
\* corresponding field of s1..sk, the values stored unmodified;
\* memory_total is sk.memory.total and last_update is sk.timestamp.
C7_HistoryIsLastSixty ==
    \A p \in Procs :
        Constructed(p) =>
            /\ \A f \in 1..10 :
                  GlobalBuffers(hist[p])[f] = ExpectedBuffer(recorded[p], f)
            /\ Len(recorded[p]) > 0 =>
                  /\ hist[p].memory_total
                        = recorded[p][Len(recorded[p])].memory.total
                  /\ hist[p].last_update
                        = recorded[p][Len(recorded[p])].timestamp

\* Two calls have run; a negative rate and a usage above 100 are stored.
C7_Witness ==
    /\ Len(recorded[1]) >= 2
    /\ \E k \in 1..HISTORY_SIZE : hist[1].network_download[k][1] < 0
    /\ \E k \in 1..HISTORY_SIZE : ~FLe(hist[1].cpu[k], F64(100))
    /\ hist[1].last_update = recorded[1][Len(recorded[1])].timestamp

\* ---------------------------------------------------------------------- C8
\* C8: on the first tick after process start, whatever the proc files hold,
\* the sample has overall CPU usage 0, CPU iowait 0, every per-core usage 0
\* and network download and upload rates 0.
C8_FirstTickZero ==
    \A p \in Procs :
        (ticks[p] = 1 /\ IsSome(stats[p])) =>
            /\ Unwrap(stats[p]).cpu_usage = Zero
            /\ Unwrap(stats[p]).cpu_iowait = Zero
            /\ \A i \in DOMAIN Unwrap(stats[p]).cpu_cores :
                  Unwrap(stats[p]).cpu_cores[i] = Zero
            /\ Unwrap(stats[p]).network_download = Zero
            /\ Unwrap(stats[p]).network_upload = Zero

\* The first tick has read non-zero counters of two cores and of a network
\* interface, and reports zeros.
C8_Witness ==
    /\ ticks[1] = 1
    /\ IsSome(stats[1])
    /\ IsSome(Unwrap(rawNow[1]).stat)
    /\ IsSome(Unwrap(rawNow[1]).netdev)
    /\ IsSome(PREV_CPU_VALUES[1])
    /\ IsSome(PREV_NET_VALUES[1])
    /\ FGt0(Unwrap(PREV_NET_VALUES[1]).rx)
    /\ Unwrap(stats[1]).cpu_cores = <<Zero, Zero>>
    /\ Unwrap(stats[1]).cpu_usage = Zero
    /\ Unwrap(stats[1]).network_download = Zero

\* ---------------------------------------------------------------- C9, C10
\* The integer a counter token stands for.
TokVal(tok) == IF IsSome(tok) THEN Unwrap(tok) ELSE 0
RawIdle(line) == TokVal(line.parts[4])
RawIowait(line) == TokVal(line.parts[5])
RawNonIdle(line) ==
    TokVal(line.parts[1]) + TokVal(line.parts[2]) + TokVal(line.parts[3])
      + TokVal(line.parts[6]) + TokVal(line.parts[7])
RawTotal(line) == RawIdle(line) + RawNonIdle(line) + RawIowait(line)

\* The reading raw has a readable aggregate line.
HasAggregate(raw) ==
    /\ IsSome(raw)
    /\ IsSome(Unwrap(raw).stat)
    /\ Len(Unwrap(Unwrap(raw).stat)) >= 1
    /\ Unwrap(Unwrap(raw).stat)[1].label = "cpu"
    /\ Len(Unwrap(Unwrap(raw).stat)[1].parts) >= 7
AggregateOf(raw) == Unwrap(Unwrap(raw).stat)[1]

\* The usage and iowait percentages the formulas give between two lines.
UsageBetween(old, new) ==
    Rat(100 * ((RawTotal(new) - RawTotal(old)) - (RawIdle(new) - RawIdle(old))
                 - (RawIowait(new) - RawIowait(old))),
        RawTotal(new) - RawTotal(old))
IowaitBetween(old, new) ==
    Rat(100 * (RawIowait(new) - RawIowait(old)), RawTotal(new) - RawTotal(old))

\* C9: for two consecutive readable aggregate readings whose total advanced,
\* the call reports usage = 100*(d_total - d_idle - d_iowait)/d_total and
\* iowait = 100*d_iowait/d_total.
C9_OverallFormula ==
    \A p \in Procs :
        ( /\ IsSome(cpu_stats[p])
          /\ HasAggregate(rawPrev[p])
          /\ HasAggregate(rawNow[p])
          /\ RawTotal(AggregateOf(rawNow[p])) > RawTotal(AggregateOf(rawPrev[p])) )
        => /\ Unwrap(cpu_stats[p]).overall_usage
                = UsageBetween(AggregateOf(rawPrev[p]), AggregateOf(rawNow[p]))
           /\ Unwrap(cpu_stats[p]).iowait_percentage
                = IowaitBetween(AggregateOf(rawPrev[p]), AggregateOf(rawNow[p]))

\* d_total = 1000, d_idle = 700, d_iowait = 50: usage 25, iowait 5.
C9_Witness ==
    /\ IsSome(cpu_stats[1])
    /\ HasAggregate(rawPrev[1])
    /\ HasAggregate(rawNow[1])
    /\ RawTotal(AggregateOf(rawNow[1])) - RawTotal(AggregateOf(rawPrev[1])) = 1000
    /\ RawIdle(AggregateOf(rawNow[1])) - RawIdle(AggregateOf(rawPrev[1])) = 700
    /\ RawIowait(AggregateOf(rawNow[1])) - RawIowait(AggregateOf(rawPrev[1])) = 50
    /\ Unwrap(cpu_stats[1]).overall_usage = F64(25)
    /\ Unwrap(cpu_stats[1]).iowait_percentage = F64(5)

\* The well-formed per-core lines of a reading: the cpu lines that follow
\* the first line.
RECURSIVE RawCoreLinesFrom(_, _)
RawCoreLinesFrom(lines, i) ==
    IF i > Len(lines) \/ lines[i].label \notin {"cpu", "cpuN"} THEN <<>>
    ELSE IF Len(lines[i].parts) >= 7
         THEN <<lines[i]>> \o RawCoreLinesFrom(lines, i + 1)
         ELSE RawCoreLinesFrom(lines, i + 1)
RawCoreLines(raw) ==
    IF IsSome(raw) /\ IsSome(Unwrap(raw).stat)
    THEN RawCoreLinesFrom(Unwrap(Unwrap(raw).stat), 2)
    ELSE <<>>

\* C10: each per-core usage is computed with the formula of the overall
\* usage: for a core whose total advanced since the previous reading of the
\* same number of cores, usage = 100*(d_total - d_idle - d_iowait)/d_total.
C10_CoreFormula ==
    \A p \in Procs :
        ( /\ IsSome(cpu_stats[p])
          /\ IsSome(rawPrev[p]) /\ IsSome(Unwrap(rawPrev[p]).stat)
          /\ IsSome(rawNow[p]) /\ IsSome(Unwrap(rawNow[p]).stat)
          /\ Len(RawCoreLines(rawPrev[p])) = Len(RawCoreLines(rawNow[p])) )
        => \A i \in 1..Len(RawCoreLines(rawNow[p])) :
              RawTotal(RawCoreLines(rawNow[p])[i])
                 > RawTotal(RawCoreLines(rawPrev[p])[i])
              => Unwrap(cpu_stats[p]).core_usage[i]
                   = UsageBetween(RawCoreLines(rawPrev[p])[i],
                                  RawCoreLines(rawNow[p])[i])


\* The history of process p after k completed add_stats calls.
HistoryAfter(p, k) == IF k = 0 THEN NewHistory(NumCores) ELSE committed[p][k]

\* The handler of connection c has serialized the history.
HasSerialized(c) == conn[c].state \in {"unlock", "write", "shutdown", "closed"}

\* C2: whatever the interleaving of the tick driver and the handlers, the
\* text a handler has serialized is the history as it stood after some
\* whole number k of completed add_stats calls, never a mix of two ticks.
C2_SnapshotIsWholeTicks ==
    \A c \in Conns :
        HasSerialized(c) =>
            \E k \in 0..Len(committed[conn[c].server]) :
                conn[c].json = HistoryToJson(HistoryAfter(conn[c].server, k))

\* A handler has serialized the history of one completed tick and still
\* holds the guard, while the tick driver waits for it with the next sample.
C2_Witness ==
    \E c \in Conns :
        /\ conn[c].state = "unlock"
        /\ pc[1] = "lock"
        /\ lock[1] = Handler(c)
        /\ Len(committed[1]) = 1
        /\ conn[c].json = HistoryToJson(committed[1][1])

\* The processes that are past the startup check and running.
Running == {p \in Procs : pc[p] \in LoopStates \cup {"construct"}}

\* C3: at most one daemon instance is past the startup singleton check at
\* the same time, for every interleaving of start attempts.
C3_AtMostOneInstance == Cardinality(Running) <= 1

\* The shared files that C4 names.
SharedFiles == {"marker", "socket", "history", "latest"}

C4_Refusal(p) ==
    (pc[p] = "proc_check" /\ pc'[p] # "proc_check"
        /\ Unwrap(readPid[p]) \in live)
    => /\ pc'[p] = "exited"
       /\ exitCode'[p] = 1
       /\ UNCHANGED <<dataDir, marker, sockFile, historyFile, latestFile>>

C4_Exited(p) ==
    pc[p] = "exited"
    => /\ exitCode[p] = 1
       /\ touched[p] \cap SharedFiles = {}
       /\ srv[p] = "none"
       /\ ticks[p] = 0
       /\ recorded[p] = <<>>

\* C4: a daemon whose startup check reads from the marker the pid of a live
\* process exits with status 1 at that step, leaving the marker, the socket
\* file, history.json and latest.json as they are; a daemon that has exited
\* has modified none of them, has spawned no socket server and has recorded
\* no tick.
C4_LiveMarkerRefusal ==
    /\ [][\A p \in Procs : C4_Refusal(p)]_vars
    /\ [](\A p \in Procs : C4_Exited(p))

\* A daemon has exited on reading the pid of another daemon, which runs and
\* has recorded a tick.
C4_Witness ==
    \E p, q \in Procs :
        /\ pc[p] = "exited"
        /\ readPid[p] = Some(Pid(q))
        /\ pc[q] \in LoopStates
        /\ marker = Some(PidFileText(Pid(q)))
        /\ Len(recorded[q]) = 1

\* C5: when a daemon that has passed the startup check completes the write
\* of the marker, the marker holds exactly that daemon's own pid, whatever
\* it held before.
C5_MarkerHoldsOwnPid ==
    [][\A p \in Procs :
          (pc[p] = "pid_newline" /\ pc'[p] = "construct")
          => marker' = Some(PidFileText(Pid(p)))]_vars

\* C6: a connection that the handler has closed has delivered to the client
\* exactly one complete serialized snapshot, in one message, and the handler
\* has read nothing.
C6_CompleteSnapshotThenClose ==
    \A c \in Conns :
        conn[c].state = "closed" =>
            /\ conn[c].received = conn[c].json
            /\ conn[c].sends = 1
            /\ conn[c].reads = 0


\* ------------------------------------------------------------------- C11
\* Process p makes a call of read_cpu_stats in this step.
CpuCallBy(p) == IsNone(cpu_stats[p]) /\ IsSome(cpu_stats'[p])

\* C11: a call of read_cpu_stats that finds an overall baseline and an
\* aggregate total not above it returns overall usage 0 and iowait 0, and
\* returns 0 for every core whose total is not above its baseline entry; the
\* call returns.
C11_ZeroOnNonAdvance ==
    [][\A p \in Procs :
          CpuCallBy(p) =>
            /\ ( /\ IsSome(PREV_CPU_VALUES[p])
                 /\ HasAggregate(rawNow'[p])
                 /\ FLe(F64(RawTotal(AggregateOf(rawNow'[p]))),
                        Unwrap(PREV_CPU_VALUES[p]).total) )
               => /\ Unwrap(cpu_stats'[p]).overall_usage = Zero
                  /\ Unwrap(cpu_stats'[p]).iowait_percentage = Zero
            /\ IsSome(PREV_CORE_VALUES[p])
               => \A i \in 1..Len(RawCoreLines(rawNow'[p])) :
                     ( /\ i <= Len(Unwrap(PREV_CORE_VALUES[p]))
                       /\ FLe(F64(RawTotal(RawCoreLines(rawNow'[p])[i])),
                              Unwrap(PREV_CORE_VALUES[p])[i].total) )
                     => Unwrap(cpu_stats'[p]).core_usage[i] = Zero]_vars

\* A call has read an aggregate line and two core lines whose totals are
\* below those of the previous reading, and has returned zeros.
C11_Witness ==
    /\ IsSome(cpu_stats[1])
    /\ HasAggregate(rawPrev[1])
    /\ HasAggregate(rawNow[1])
    /\ RawTotal(AggregateOf(rawNow[1])) < RawTotal(AggregateOf(rawPrev[1]))
    /\ Len(RawCoreLines(rawPrev[1])) = 2
    /\ Len(RawCoreLines(rawNow[1])) = 2
    /\ RawTotal(RawCoreLines(rawNow[1])[1]) < RawTotal(RawCoreLines(rawPrev[1])[1])
    /\ Unwrap(cpu_stats[1]).overall_usage = Zero
    /\ Unwrap(cpu_stats[1]).iowait_percentage = Zero
    /\ Unwrap(cpu_stats[1]).core_usage = <<Zero, Zero>>

\* ------------------------------------------------------------------- C12
\* The text of /proc/stat and of /proc/net/dev in the reading raw.
StatOfRaw(raw) == Unwrap(raw).stat
NetOfRaw(raw) == Unwrap(raw).netdev

\* Every baseline that the next tick will find holds the counters of the
\* reading raw, taken at the time now.
BaselinesHold(p, raw, now) ==
    /\ IsSome(PREV_CPU_VALUES[p])
       => /\ IsSome(StatOfRaw(raw))
          /\ PREV_CPU_VALUES[p] = ParseAggregate(Unwrap(StatOfRaw(raw)))
    /\ IsSome(PREV_CORE_VALUES[p])
       => /\ IsSome(StatOfRaw(raw))
          /\ PREV_CORE_VALUES[p] = Some(CoreStatsFrom(Unwrap(StatOfRaw(raw)), 2))
    /\ IsSome(PREV_NET_VALUES[p])
       => /\ IsSome(NetOfRaw(raw))
          /\ PREV_NET_VALUES[p]
               = NetBaseline(NetSum(Unwrap(NetOfRaw(raw)), Len(Unwrap(NetOfRaw(raw))), 1),
                             NetSum(Unwrap(NetOfRaw(raw)), Len(Unwrap(NetOfRaw(raw))), 9),
                             now)

\* C12: after every tick that follows the first, the overall, the per-core
\* and the network baseline equal the counters that tick has read, whatever
\* the deltas were and whatever happened to the sources: the next tick
\* measures its deltas against this tick.
C12_BaselinesFollowEveryTick ==
    \A p \in Procs :
        (ticks[p] >= 2 /\ IsSome(stats[p])) => BaselinesHold(p, rawNow[p], clock)

\* ------------------------------------------------------------------- C13
\* The reading raw has a readable /proc/stat.
StatReadable(raw) == IsSome(raw) /\ IsSome(Unwrap(raw).stat)

\* The per-core baseline prev holds the (total, idle) of the core lines.
BaselineOfLines(prev, lines) ==
    /\ IsSome(prev)
    /\ Len(Unwrap(prev)) = Len(lines)
    /\ \A i \in 1..Len(lines) :
          /\ Unwrap(prev)[i].total = F64(RawTotal(lines[i]))
          /\ Unwrap(prev)[i].idle = F64(RawIdle(lines[i]))

\* The usage of a core between its baseline entry and its line now.
CoreUsageSince(entry, line) ==
    Rat(100 * ((RawTotal(line) - entry.total[1]) - (RawIdle(line) - entry.idle[1])),
        RawTotal(line) - entry.total[1])

\* C13: a call of read_cpu_stats that reads a number of per-core lines other
\* than the number of entries of the per-core baseline returns one zero per
\* line read and leaves the lines read as the baseline; a call that reads as
\* many lines as the baseline has entries returns, for each core whose total
\* advanced, the usage measured against that baseline.
C13_MismatchZerosThenRealDeltas ==
    [][\A p \in Procs :
          ( /\ CpuCallBy(p)
            /\ IsSome(PREV_CORE_VALUES[p])
            /\ StatReadable(rawNow'[p]) )
          => IF Len(RawCoreLines(rawNow'[p])) # Len(Unwrap(PREV_CORE_VALUES[p]))
             THEN /\ Unwrap(cpu_stats'[p]).core_usage
                       = [i \in 1..Len(RawCoreLines(rawNow'[p])) |-> Zero]
                  /\ BaselineOfLines(PREV_CORE_VALUES'[p], RawCoreLines(rawNow'[p]))
             ELSE /\ Len(Unwrap(cpu_stats'[p]).core_usage)
                       = Len(RawCoreLines(rawNow'[p]))
                  /\ \A i \in 1..Len(RawCoreLines(rawNow'[p])) :
                        F64(RawTotal(RawCoreLines(rawNow'[p])[i]))
                           # Unwrap(PREV_CORE_VALUES[p])[i].total
                        /\ ~FLe(F64(RawTotal(RawCoreLines(rawNow'[p])[i])),
                                Unwrap(PREV_CORE_VALUES[p])[i].total)
                        => Unwrap(cpu_stats'[p]).core_usage[i]
                             = CoreUsageSince(Unwrap(PREV_CORE_VALUES[p])[i],
                                              RawCoreLines(rawNow'[p])[i])
                  /\ BaselineOfLines(PREV_CORE_VALUES'[p], RawCoreLines(rawNow'[p]))]_vars

\* A call has read three core lines after a reading of two, has returned
\* three zeros, and the baseline holds the three lines.
C13_Witness ==
    /\ IsSome(cpu_stats[1])
    /\ StatReadable(rawPrev[1])
    /\ StatReadable(rawNow[1])
    /\ Len(RawCoreLines(rawPrev[1])) = 2
    /\ Len(RawCoreLines(rawNow[1])) = 3
    /\ RawTotal(RawCoreLines(rawNow[1])[1]) > RawTotal(RawCoreLines(rawPrev[1])[1])
    /\ Unwrap(cpu_stats[1]).core_usage = <<Zero, Zero, Zero>>
    /\ BaselineOfLines(PREV_CORE_VALUES[1], RawCoreLines(rawNow[1]))

\* ------------------------------------------------------------------- C14
\* The sample s without its per-core readings beyond index n.
WithoutExtraCores(s, n) ==
    [s EXCEPT !.cpu_cores =
        SubSeq(@, 1, IF Len(@) < n THEN Len(@) ELSE n)]

\* C14: the history keeps the number of per-core buffers it was constructed
\* with after every add_stats call, whether the sample carries fewer or more
\* per-core readings, and each call leaves the history it would leave had
\* the readings beyond that number not been in the sample.
C14_CoreBufferCountFixed ==
    \A p \in Procs :
        Constructed(p) =>
            /\ Len(hist[p].cpu_cores) = NumCores
            /\ \A k \in 1..Len(committed[p]) :
                  /\ Len(committed[p][k].cpu_cores) = NumCores
                  /\ committed[p][k]
                       = AddStats(HistoryAfter(p, k - 1),
                                  WithoutExtraCores(recorded[p][k], NumCores))

\* Two calls have run, the first with no per-core reading and the second
\* with one more reading than there are buffers; the buffers hold the
\* second call's readings of their own index.
C14_Witness ==
    /\ Len(recorded[1]) = 2
    /\ Len(recorded[1][1].cpu_cores) = 0
    /\ Len(recorded[1][2].cpu_cores) = NumCores + 1
    /\ Len(hist[1].cpu_cores) = NumCores
    /\ \A i \in 1..NumCores :
          hist[1].cpu_cores[i][HISTORY_SIZE] = recorded[1][2].cpu_cores[i]
    /\ hist[1] = committed[1][2]

\* ------------------------------------------------------------------- C15
\* C15: an add_stats call whose sample carries fewer per-core readings than
\* there are per-core buffers pushes a 0 into the buffer of each core
\* without a reading, which advances by one position as the others do.
C15_MissingCoreGetsZero ==
    \A p \in Procs :
        Constructed(p) =>
            \A k \in 1..Len(committed[p]) :
                \A i \in 1..NumCores :
                    i > Len(recorded[p][k].cpu_cores)
                    => committed[p][k].cpu_cores[i]
                         = Tail(HistoryAfter(p, k - 1).cpu_cores[i]) \o <<Zero>>

\* ------------------------------------------------------------------- C16
\* The text of /proc/stat is unreadable, or its first line is no aggregate
\* line of seven numbers.
CpuSourceBad(reading) ==
    \/ IsNone(reading.stat)
    \/ Len(Unwrap(reading.stat)) = 0
    \/ Unwrap(reading.stat)[1].label # "cpu"
    \/ Len(Unwrap(reading.stat)[1].parts) < 7
    \/ \E j \in 1..7 : IsNone(Unwrap(reading.stat)[1].parts[j])

\* The text of /proc/meminfo is unreadable, or none of its lines is a key,
\* a colon and a number.
MemSourceBad(reading) ==
    \/ IsNone(reading.meminfo)
    \/ \A j \in 1..Len(Unwrap(reading.meminfo)) :
          \/ Unwrap(reading.meminfo)[j].pieces # 2
          \/ Len(Unwrap(reading.meminfo)[j].value) = 0
          \/ IsNone(Unwrap(reading.meminfo)[j].value[1])

\* The text of /proc/net/dev is unreadable, or it has no interface line.
NetSourceBad(reading) ==
    \/ IsNone(reading.netdev)
    \/ \A j \in 1..Len(Unwrap(reading.netdev)) :
          Unwrap(reading.netdev)[j].colons = 0

\* C16: whichever of the three sources a tick finds unreadable or
\* malformed, the tick runs to its end: the overall CPU fields, the memory
\* fields and the network rates of the sample are 0 for each bad source, the
\* memory fields are those of /proc/meminfo whatever the other two sources,
\* the sample is recorded into the history and both files hold the new
\* history and the sample.
C16_BadSourcesDegradeToZero ==
    \A p \in Procs :
        ( /\ pc[p] = "tick_wait"
          /\ ticks[p] >= 1
          /\ IsSome(rawPrev[p]) )
        => /\ Len(recorded[p]) = ticks[p]
           /\ committed[p][ticks[p]] = hist[p]
           /\ historyFile = HistoryToJson(hist[p])
           /\ latestFile = StatsToJson(recorded[p][ticks[p]])
           /\ recorded[p][ticks[p]].memory
                 = ReadMemoryStats(Unwrap(rawPrev[p]).meminfo)
           /\ CpuSourceBad(Unwrap(rawPrev[p]))
              => /\ recorded[p][ticks[p]].cpu_usage = Zero
                 /\ recorded[p][ticks[p]].cpu_iowait = Zero
           /\ MemSourceBad(Unwrap(rawPrev[p]))
              => recorded[p][ticks[p]].memory = DefaultMemoryStats
           /\ NetSourceBad(Unwrap(rawPrev[p]))
              => /\ recorded[p][ticks[p]].network_download = Zero
                 /\ recorded[p][ticks[p]].network_upload = Zero

\* ------------------------------------------------------------------- C17
\* The handler of connection c is at its socket write or at the shutdown.
AtSocket(c) == conn[c].state \in {"write", "shutdown"}

\* C17: a handler that is writing to its socket or shutting it down does not
\* hold the history lock; it has serialized its snapshot before, and has
\* written nothing to the socket while it held the lock.
C17_NoLockAcrossSocketWrite ==
    \A c \in Conns :
        /\ AtSocket(c) => /\ lock[conn[c].server] # Handler(c)
                          /\ HasSerialized(c)
                          /\ conn[c].json # <<>>
        /\ \A p \in Procs : lock[p] = Handler(c) => conn[c].sends = 0

\* A handler is about to write its snapshot while the tick driver holds the
\* lock in the middle of add_stats.
C17_Witness ==
    \E c \in Conns :
        /\ conn[c].state = "write"
        /\ conn[c].sends = 0
        /\ Len(committed[1]) = 1
        /\ conn[c].json = HistoryToJson(HistoryAfter(1, 1))
        /\ lock[1] = TickDriver
        /\ pc[1] = "add_mem"

\* ------------------------------------------------------------------- C18
\* C18: under the scheduling of the runtime, with any of the clients never
\* reading its socket, a tick that waits for the history lock gets it and
\* completes its record, a tick that has sampled runs to its end, and every
\* accepted connection gets its snapshot serialized and the lock released.
C18_ProgressDespiteStalledClients ==
    /\ (pc[1] = "lock") ~> (pc[1] = "write_history")
    /\ (pc[1] = "sample") ~> (pc[1] = "tick_wait")
    /\ \A c \in Conns :
          (conn[c].state = "lock")
             ~> (conn[c].state \in {"write", "shutdown", "closed"}
                   /\ lock[1] # Handler(c))

\* Both clients have stalled: their handlers sit in the write with the
\* history of before the first tick, and the second tick has completed its
\* record.
C18_Witness ==
    /\ \A c \in Conns :
          /\ conn[c].state = "write"
          /\ conn[c].json = HistoryToJson(NewHistory(NumCores))
    /\ ticks[1] = 2
    /\ pc[1] = "tick_wait"
    /\ Len(committed[1]) = 2
    /\ lock[1] = Free

\* ------------------------------------------------------------------- C19
\* The write of the handler of connection c has failed.
WriteFailed(c) ==
    conn[c].state \in {"shutdown", "closed"} /\ ~conn[c].write_ok

\* C19: the step in which a handler's write fails changes that connection
\* only, and takes the handler to the shutdown, its last statement: the
\* history, the lock, the files, the server task, the tick driver and the
\* other connections are as before.  After it the server task is still in
\* its accept loop, a queued connection can be accepted, another handler can
\* write, and the tick driver can take its next tick.
C19_FailedWriteIsLocal ==
    /\ [][\A c \in Conns :
            ( /\ conn[c].state = "write"
              /\ conn'[c].state # "write"
              /\ ~conn'[c].write_ok )
            => /\ conn'[c].state = "shutdown"
               /\ \A d \in Conns \ {c} : conn'[d] = conn[d]
               /\ UNCHANGED <<hostVars, mainVars, tickVars, recorded,
                              committed>>]_vars
    /\ [](\A c \in Conns :
            WriteFailed(c) =>
               /\ srv[conn[c].server] = "accept"
               /\ conn[c].state = "shutdown" => ENABLED HandlerShutdown(c)
               /\ \A d \in Conns \ {c} :
                     /\ conn[d].state = "queued" => ENABLED Accept(d)
                     /\ conn[d].state = "write" => ENABLED HandlerWrite(d)
               /\ (pc[1] = "tick_wait" /\ ticks[1] < MaxTicks)
                  => ENABLED TimerFire(1, {UPDATE_INTERVAL_MS}, MaxTicks))

\* The write to one client failed before the first tick; afterwards the
\* other client was served the whole history of the first tick, and the
\* second tick has completed.
C19_Witness ==
    \E c, d \in Conns :
        /\ conn[c].state = "closed"
        /\ ~conn[c].write_ok
        /\ conn[c].json = HistoryToJson(NewHistory(NumCores))
        /\ conn[d].state = "closed"
        /\ conn[d].write_ok
        /\ Len(committed[1]) = 2
        /\ conn[d].json = HistoryToJson(HistoryAfter(1, 1))
        /\ conn[d].received = conn[d].json
        /\ pc[1] = "tick_wait"

\* ------------------------------------------------------------------- C20
\* The bind of the socket server task of process p has failed.
BindFailed(p) == srv[p] = "failed"

\* C20: the step in which the bind fails leaves main and its loop as they
\* are; from then on the server task stays ended and no connection is ever
\* queued or accepted; every tick that ends has recorded its sample and
\* written both files, and the tick driver runs all its ticks to the end.
C20_BindFailureLeavesTheLoop ==
    /\ [][(~BindFailed(1) /\ BindFailed(1)')
            => UNCHANGED <<pc, exitCode, tickVars, conn, recorded, committed,
                           historyFile, latestFile>>]_vars
    /\ [][BindFailed(1) => BindFailed(1)']_vars
    /\ [](BindFailed(1) =>
             /\ \A c \in Conns : conn[c].state = "idle"
             /\ pc[1] \in LoopStates
             /\ (pc[1] = "tick_wait" /\ ticks[1] >= 1) =>
                   /\ Len(recorded[1]) = ticks[1]
                   /\ hist[1] = committed[1][ticks[1]]
                   /\ historyFile = HistoryToJson(hist[1])
                   /\ latestFile = StatsToJson(recorded[1][ticks[1]]))
    /\ BindFailed(1) ~> (pc[1] = "tick_wait" /\ ticks[1] = MaxTicks)

\* The bind failed before the first tick, and two ticks have sampled,
\* recorded and written both files since.
C20_Witness ==
    /\ BindFailed(1)
    /\ pc[1] = "tick_wait"
    /\ ticks[1] = 2
    /\ Len(committed[1]) = 2
    /\ committed[1][1] # NewHistory(NumCores)
    /\ historyFile = HistoryToJson(committed[1][2])
    /\ latestFile = StatsToJson(recorded[1][2])
    /\ \A c \in Conns : conn[c].state = "idle"

\* ------------------------------------------------------------------- C21
\* The order of main's positions in one pass of the loop.
TickOrder ==
    { <<"tick_wait", "sample">>, <<"sample", "lock">>, <<"lock", "add_cpu">>,
      <<"add_cpu", "add_mem">>, <<"add_mem", "add_net">>,
      <<"add_net", "write_history">>, <<"write_history", "unlock">>,
      <<"unlock", "write_latest">>, <<"write_latest", "tick_wait">> }

\* The history file does not hold the history in memory: the write of this
\* tick has failed.
HistoryWriteFailed(p) == historyFile # HistoryToJson(hist[p])

\* C21: main moves through sample, record, history write and latest write
\* in that order, once each per tick, whatever the outcome of the writes; no
\* write changes the history in memory; every tick that has ended is
\* recorded; a tick whose history write failed still makes its latest
\* write, and the loop runs all its ticks whichever writes fail.
C21_TickStepsInOrder ==
    /\ [][pc'[1] # pc[1] => <<pc[1], pc'[1]>> \in TickOrder]_vars
    /\ [][pc[1] \in {"write_history", "unlock", "write_latest"}
            => UNCHANGED <<hist, recorded, committed, lock>>
               \/ (pc[1] = "unlock" /\ UNCHANGED <<hist, recorded, committed>>)]_vars
    /\ [](pc[1] = "tick_wait" =>
             /\ Len(recorded[1]) = ticks[1]
             /\ ticks[1] >= 1 => hist[1] = committed[1][ticks[1]])
    /\ (pc[1] = "unlock" /\ HistoryWriteFailed(1)) ~> (pc[1] = "tick_wait")
    /\ <>(pc[1] = "tick_wait" /\ ticks[1] = MaxTicks)

\* The first tick wrote both files; the history write of the second tick
\* failed at File::create, so the file still holds the history of the first
\* tick, and the latest write of the second tick succeeded all the same.
C21_Witness ==
    /\ pc[1] = "tick_wait"
    /\ ticks[1] = 2
    /\ Len(recorded[1]) = 2
    /\ HistoryWriteFailed(1)
    /\ historyFile = HistoryToJson(committed[1][1])
    /\ latestFile = StatsToJson(recorded[1][2])

\* ------------------------------------------------------------------- C22
\* C22: a tick samples only when every earlier tick is recorded, and at any
\* moment at most the current tick is not recorded yet; the three baselines
\* change only in the sampling step of the tick driver, a step in which no
\* connection and no part of the server task moves.
C22_TicksSequentialBaselinesPrivate ==
    /\ [](\A p \in Procs :
             Constructed(p) =>
                /\ pc[p] \in {"sample", "lock", "add_cpu", "add_mem", "add_net"}
                   => Len(recorded[p]) = ticks[p] - 1
                /\ pc[p] \in {"tick_wait", "write_history", "unlock",
                              "write_latest"}
                   => Len(recorded[p]) = ticks[p])
    /\ [][\A p \in Procs :
            ticks'[p] # ticks[p]
            => /\ pc[p] = "tick_wait"
               /\ Len(recorded[p]) = ticks[p]
               /\ UNCHANGED baselineVars]_vars
    /\ [][\A p \in Procs :
            ( \/ PREV_CPU_VALUES'[p] # PREV_CPU_VALUES[p]
              \/ PREV_CORE_VALUES'[p] # PREV_CORE_VALUES[p]
              \/ PREV_NET_VALUES'[p] # PREV_NET_VALUES[p] )
            => /\ pc[p] = "sample"
               /\ pc'[p] = "lock"
               /\ conn' = conn
               /\ srv' = srv
               /\ lock' = lock]_vars

\* The second tick has just sampled and replaced the baselines of the first
\* while a handler, accepted meanwhile, is serializing under the lock.
C22_Witness ==
    \E c \in Conns :
        /\ pc[1] = "lock"
        /\ ticks[1] = 2
        /\ Len(recorded[1]) = 1
        /\ conn[c].state = "serialize"
        /\ lock[1] = Handler(c)
        /\ IsSome(PREV_NET_VALUES[1])
        /\ Unwrap(PREV_NET_VALUES[1]).time = clock
        /\ clock = 2 * UPDATE_INTERVAL_MS

\* ------------------------------------------------------------------- C23
\* C23: between the firing of its timer and the end of the tick the tick
\* driver is never made to wait by another task: when it is at
\* history.lock() the lock is free.
C23_TickDriverNeverWaits ==
    \A p \in Procs :
        (Constructed(p) /\ pc[p] = "lock") => lock[p] = Free

\* ------------------------------------------------------------------- C24
\* Process p has ended by itself: by exit(1) or by a panic of main.
EndedFromWithin(p) == pc[p] \in {"exited", "panicked"}

\* C24: a daemon process ends by itself only on the startup singleton
\* conflict: it has read the pid of a live process from the marker and
\* exits with status 1.
C24_OnlySingletonConflictEnds ==
    \A p \in Procs :
        EndedFromWithin(p) =>
            /\ pc[p] = "exited"
            /\ exitCode[p] = 1
            /\ IsSome(readPid[p])

\* ------------------------------------------------------------------- C25
\* The member of a JSON object under a key.
JsonMember(json, key) ==
    (CHOOSE m \in {json[i] : i \in 1..Len(json)} : m[1] = key)[2]

\* The rate in KB/s of a counter that moved from a baseline value prev (an
\* integer as f64) to now in ms milliseconds.
RateOver(now, prev, ms) == Rat((now - prev[1]) * 1000, 1024 * ms)

\* The sums of the receive and transmit counters of the reading raw.
RxSum(raw) == NetSum(Unwrap(NetOfRaw(raw)), Len(Unwrap(NetOfRaw(raw))), 1)
TxSum(raw) == NetSum(Unwrap(NetOfRaw(raw)), Len(Unwrap(NetOfRaw(raw))), 9)

\* Process p takes its sample in this step.
SamplingBy(p) == pc[p] = "sample" /\ pc'[p] = "lock"

\* C25: a tick that reads a receive (transmit) sum below the baseline's,
\* some time after the baseline was taken, reports the negative rate
\* (sum - baseline) / 1024 / seconds; add_stats stores each rate as the
\* newest element of its buffer as it is, and the history file and every
\* snapshot a handler serializes hold the buffers as they are.
C25_NegativeRateKept ==
    /\ [][\A p \in Procs :
            ( /\ SamplingBy(p)
              /\ IsSome(PREV_NET_VALUES[p])
              /\ IsSome(NetOfRaw(rawNow'[p]))
              /\ clock > Unwrap(PREV_NET_VALUES[p]).time )
            => /\ FLe(F64(RxSum(rawNow'[p]) + 1), Unwrap(PREV_NET_VALUES[p]).rx)
                  => /\ Unwrap(stats'[p]).network_download
                          = RateOver(RxSum(rawNow'[p]),
                                     Unwrap(PREV_NET_VALUES[p]).rx,
                                     clock - Unwrap(PREV_NET_VALUES[p]).time)
                     /\ Unwrap(stats'[p]).network_download[1] < 0
               /\ FLe(F64(TxSum(rawNow'[p]) + 1), Unwrap(PREV_NET_VALUES[p]).tx)
                  => /\ Unwrap(stats'[p]).network_upload
                          = RateOver(TxSum(rawNow'[p]),
                                     Unwrap(PREV_NET_VALUES[p]).tx,
                                     clock - Unwrap(PREV_NET_VALUES[p]).time)
                     /\ Unwrap(stats'[p]).network_upload[1] < 0]_vars
    /\ [](\A p \in Procs :
             Constructed(p) =>
                /\ \A k \in 1..Len(committed[p]) :
                      /\ committed[p][k].network_download[HISTORY_SIZE]
                            = recorded[p][k].network_download
                      /\ committed[p][k].network_upload[HISTORY_SIZE]
                            = recorded[p][k].network_upload
                /\ pc[p] \in {"unlock", "write_latest", "tick_wait"} /\ ticks[p] >= 1
                   => /\ JsonMember(historyFile, "network_download")
                            = hist[p].network_download
                      /\ JsonMember(historyFile, "network_upload")
                            = hist[p].network_upload)
    /\ [](\A c \in Conns :
             HasSerialized(c) =>
                \E k \in 0..Len(committed[conn[c].server]) :
                   /\ JsonMember(conn[c].json, "network_download")
                         = HistoryAfter(conn[c].server, k).network_download
                   /\ JsonMember(conn[c].json, "network_upload")
                         = HistoryAfter(conn[c].server, k).network_upload)

\* The receive sum fell from 16384 to 4096 and the transmit sum from 4096 to
\* 2048 in one second: the second tick recorded -12 and -2 KB/s, and a
\* handler has serialized a snapshot whose newest rates are -12 and -2.
C25_Witness ==
    \E c \in Conns :
        /\ Len(recorded[1]) = 2
        /\ recorded[1][2].network_download = F64(-12)
        /\ recorded[1][2].network_upload = F64(-2)
        /\ hist[1].network_download[HISTORY_SIZE] = F64(-12)
        /\ conn[c].state = "write"
        /\ JsonMember(conn[c].json, "network_download")[HISTORY_SIZE] = F64(-12)
        /\ JsonMember(conn[c].json, "network_upload")[HISTORY_SIZE] = F64(-2)
        /\ JsonMember(historyFile, "network_download")[HISTORY_SIZE] = F64(-12)

\* ------------------------------------------------------------------- C26
\* C26: a tick that reads an aggregate CPU total below its baseline reports
\* overall usage and iowait 0; one that reads another number of cores than
\* the baseline has reports every core as 0; one that reads a receive or
\* transmit sum below its baseline reports that rate as 0; and in each case
\* the baseline is then the reading of this tick.
C26_AnomalyDegradesToZero ==
    [][\A p \in Procs :
          SamplingBy(p) =>
            /\ ( /\ IsSome(PREV_CPU_VALUES[p])
                 /\ HasAggregate(rawNow'[p])
                 /\ FLe(F64(RawTotal(AggregateOf(rawNow'[p])) + 1),
                        Unwrap(PREV_CPU_VALUES[p]).total) )
               => /\ Unwrap(stats'[p]).cpu_usage = Zero
                  /\ Unwrap(stats'[p]).cpu_iowait = Zero
                  /\ PREV_CPU_VALUES'[p]
                        = ParseAggregate(Unwrap(StatOfRaw(rawNow'[p])))
            /\ ( /\ IsSome(PREV_CORE_VALUES[p])
                 /\ StatReadable(rawNow'[p])
                 /\ Len(RawCoreLines(rawNow'[p])) # Len(Unwrap(PREV_CORE_VALUES[p])) )
               => /\ \A i \in 1..Len(Unwrap(stats'[p]).cpu_cores) :
                        Unwrap(stats'[p]).cpu_cores[i] = Zero
                  /\ BaselineOfLines(PREV_CORE_VALUES'[p], RawCoreLines(rawNow'[p]))
            /\ ( /\ IsSome(PREV_NET_VALUES[p])
                 /\ IsSome(NetOfRaw(rawNow'[p])) )
               => /\ FLe(F64(RxSum(rawNow'[p]) + 1), Unwrap(PREV_NET_VALUES[p]).rx)
                     => Unwrap(stats'[p]).network_download = Zero
                  /\ FLe(F64(TxSum(rawNow'[p]) + 1), Unwrap(PREV_NET_VALUES[p]).tx)
                     => Unwrap(stats'[p]).network_upload = Zero
                  /\ PREV_NET_VALUES'[p]
                        = NetBaseline(RxSum(rawNow'[p]), TxSum(rawNow'[p]), clock)]_vars

\* ------------------------------------------------------------------- C27
\* The name of the interface a line of /proc/net/dev describes, and the sum
\* of a column over every interface line whose name is not "lo".
IsInterfaceLine(line) == line.colons = 1 /\ Len(line.values) >= 9

RECURSIVE SumExceptLo(_, _, _)
SumExceptLo(lines, n, col) ==
    IF n = 0 THEN 0
    ELSE SumExceptLo(lines, n - 1, col)
           + (IF IsInterfaceLine(lines[n]) /\ lines[n].name # LoName
              THEN ParseU64(lines[n].values[col]) ELSE 0)

NetDevRead(p) ==
    /\ IsSome(stats[p])
    /\ IsSome(rawNow[p])
    /\ IsSome(Unwrap(rawNow[p]).netdev)

\* C27: the receive and transmit totals of a tick that read /proc/net/dev
\* are the sums of the byte counters of every interface whose name is not
\* "lo", whatever its name.
C27_EveryInterfaceButLoCounted ==
    \A p \in Procs :
        NetDevRead(p) =>
            /\ Unwrap(PREV_NET_VALUES[p]).rx
                 = F64(SumExceptLo(Unwrap(Unwrap(rawNow[p]).netdev),
                                   Len(Unwrap(Unwrap(rawNow[p]).netdev)), 1))
            /\ Unwrap(PREV_NET_VALUES[p]).tx
                 = F64(SumExceptLo(Unwrap(Unwrap(rawNow[p]).netdev),
                                   Len(Unwrap(Unwrap(rawNow[p]).netdev)), 9))

\* ------------------------------------------------------------------- C28
\* The number of kilobytes /proc/meminfo reports under key: 0 when the file
\* is missing or has no line with that key.
ReportedKb(meminfo, key) ==
    IF IsNone(meminfo) THEN 0
    ELSE LET lines == Unwrap(meminfo)
             at == { i \in DOMAIN lines : lines[i].key = key }
         IN  IF at = {} THEN 0
             ELSE Unwrap(lines[CHOOSE i \in at : \A j \in at : j <= i].value[1])

MemRead(p) == IF IsSome(rawNow[p]) THEN Unwrap(rawNow[p]).meminfo ELSE None

\* C28: the memory reading of every sample has used_percentage
\* 100 * (total - available) / total when total > 0 and 0 otherwise, apps the
\* sum of Active(anon) and Inactive(anon), and cached, buffers, slab and
\* shmem as reported; a field the file lacks counts as 0 and a missing file
\* gives all zeros.
C28_MemoryReading ==
    \A p \in Procs :
        (IsSome(stats[p]) /\ IsSome(rawNow[p])) =>
            LET m == Unwrap(stats[p]).memory
                total == ReportedKb(MemRead(p), "MemTotal")
                available == ReportedKb(MemRead(p), "MemAvailable")
            IN  /\ m.used_percentage
                     = (IF total > 0 THEN Rat(100 * (total - available), total)
                        ELSE Zero)
                /\ m.total = F64(total)
                /\ m.apps = F64(ReportedKb(MemRead(p), "Active(anon)")
                                  + ReportedKb(MemRead(p), "Inactive(anon)"))
                /\ m.cached = F64(ReportedKb(MemRead(p), "Cached"))
                /\ m.buffers = F64(ReportedKb(MemRead(p), "Buffers"))
                /\ m.slab = F64(ReportedKb(MemRead(p), "Slab"))
                /\ m.shmem = F64(ReportedKb(MemRead(p), "Shmem"))

\* A tick has read a file with MemTotal 4000 and Cached 500 that has no
\* MemAvailable, Inactive(anon), Buffers, Slab or Shmem line: 100 percent
\* used, apps 700, and the sample was produced.
C28_Witness ==
    /\ IsSome(stats[1])
    /\ IsSome(MemRead(1))
    /\ Len(Unwrap(MemRead(1))) = 3
    /\ Unwrap(stats[1]).memory.used_percentage = F64(100)
    /\ Unwrap(stats[1]).memory.apps = F64(700)
    /\ Unwrap(stats[1]).memory.cached = F64(500)
    /\ Unwrap(stats[1]).memory.slab = Zero
    /\ ticks[1] = 2

\* ------------------------------------------------------------------- C29
\* The handler of connection c takes its snapshot in this step.
SnapshotTakenBy(c) == conn[c].state = "serialize" /\ conn'[c].state = "unlock"

\* C29: whenever no task holds the history lock and the last write_history
\* succeeded, the history file holds the serialization of the in-memory
\* history; the history changes and the file is written only while the tick
\* driver holds the lock; and a snapshot a handler takes after a successful
\* write is, at the moment it is taken, the text of the history file.
C29_FileIsTheHistory ==
    /\ [](\A p \in Procs :
            (Constructed(p) /\ lock[p] = Free /\ lastWrite[p] = "ok")
               => historyFile = HistoryToJson(hist[p]))
    /\ [][/\ \A p \in Procs : hist'[p] # hist[p] => lock[p] = TickDriver
          /\ historyFile' # historyFile
                => \E p \in Procs :
                      /\ lock[p] = TickDriver
                      /\ historyFile' \in {<<>>, HistoryToJson(hist[p])}]_vars
    /\ [][\A c \in Conns :
            (SnapshotTakenBy(c) /\ lastWrite[conn[c].server] = "ok")
               => /\ conn'[c].json = historyFile
                  /\ JsonMember(conn'[c].json, "last_update")
                       = JsonMember(historyFile, "last_update")]_vars

\* Two ticks are complete; the write_history of the second succeeded and
\* its write_latest failed after the truncation.  The lock is free, the file
\* is the history after two ticks, and a handler has taken a snapshot equal
\* to it.
C29_Witness ==
    /\ ticks[1] = 2
    /\ pc[1] = "tick_wait"
    /\ Len(committed[1]) = 2
    /\ lock[1] = Free
    /\ lastWrite[1] = "ok"
    /\ historyFile = HistoryToJson(committed[1][2])
    /\ hist[1] = committed[1][2]
    /\ conn[1].state = "write"
    /\ conn[1].json = historyFile
    /\ latestFile = <<>>

\* ------------------------------------------------------------------- C30
\* The two files exist and their texts are complete.
BothFilesWritten == historyFile # <<>> /\ latestFile # <<>>

\* The tick driver is between its write_history and the end of its
\* write_latest.
InWriteWindow(p) == pc[p] \in {"unlock", "write_latest"}

TicksIn(p, json) ==
    CHOOSE k \in 0..Len(committed[p]) : json = HistoryToJson(HistoryAfter(p, k))

\* The handler of connection c acquires the lock in this step.
LockTakenBy(c) == conn[c].state = "lock" /\ conn'[c].state = "serialize"

\* The handler of connection c holds the guard.
HoldsGuard(c) == conn[c].state \in {"serialize", "unlock"}

\* C31: no add_stats completes while a handler holds the lock, and the
\* snapshot a handler serializes is the history after every tick recorded
\* before it took the lock, its last_update the timestamp of the last of
\* them; a handler that takes the lock after another has serialized
\* reflects at least as many ticks as that one.
C31_SnapshotsFreshAndMonotone ==
    /\ [][\A c \in Conns :
            HoldsGuard(c) => /\ committed' = committed
                             /\ hist' = hist]_vars
    /\ [][\A c \in Conns :
            SnapshotTakenBy(c)
               => LET p == conn[c].server
                      k == Len(committed[p])
                  IN  /\ conn'[c].json = HistoryToJson(HistoryAfter(p, k))
                      /\ k >= 1 => JsonMember(conn'[c].json, "last_update")
                                      = recorded[p][k].timestamp]_vars
    /\ [][\A b \in Conns :
            LockTakenBy(b)
               => \A a \in Conns \ {b} :
                     (HasSerialized(a) /\ conn[a].server = conn[b].server)
                        => TicksIn(conn[a].server, conn[a].json)
                             <= Len(committed[conn[b].server])]_vars
    /\ [](\A c \in Conns :
            HasSerialized(c)
               => \E k \in 0..Len(committed[conn[c].server]) :
                     conn[c].json
                        = HistoryToJson(HistoryAfter(conn[c].server, k)))

\* The first handler took its snapshot after tick 1 and is still writing
\* it; the second took the lock after tick 2 was recorded and has
\* serialized both ticks.
C31_Witness ==
    /\ Len(committed[1]) = 2
    /\ conn[1].state = "write"
    /\ conn[2].state = "unlock"
    /\ conn[1].json = HistoryToJson(committed[1][1])
    /\ conn[2].json = HistoryToJson(committed[1][2])
    /\ JsonMember(conn[1].json, "last_update") = 1000
    /\ JsonMember(conn[2].json, "last_update") = 2000

\* ------------------------------------------------------------------- C32
\* The percentage x lies in [0, 100].
InPercentRange(x) == FLe(Zero, x) /\ FLe(x, F64(100))

\* The sampling step of process p: a sample is produced.
SampleProducedBy(p) == IsNone(stats[p]) /\ IsSome(stats'[p])

\* The aggregate line of the reading raw against the baseline prev: no
\* delta is negative and idle and iowait together do not exceed the total.
NormalCpuDeltas(raw, prev) ==
    /\ RawIdle(AggregateOf(raw)) >= prev.idle[1]
    /\ RawIowait(AggregateOf(raw)) >= prev.iowait[1]
    /\ (RawIdle(AggregateOf(raw)) - prev.idle[1])
         + (RawIowait(AggregateOf(raw)) - prev.iowait[1])
           <= RawTotal(AggregateOf(raw)) - prev.total[1]

\* C32: a sample taken on an aggregate line whose idle and iowait counters
\* did not go back since the baseline, and moved together by no more than
\* the total, has overall usage and iowait in [0, 100] with a sum of at most
\* 100; a sample taken on a meminfo with 0 <= MemAvailable <= MemTotal has
\* used_percentage in [0, 100].
C32_PercentagesInRange ==
    [][\A p \in Procs :
          SampleProducedBy(p) =>
            /\ ( /\ IsSome(PREV_CPU_VALUES[p])
                 /\ HasAggregate(rawNow'[p])
                 /\ \A i \in 1..7 : IsSome(AggregateOf(rawNow'[p]).parts[i])
                 /\ NormalCpuDeltas(rawNow'[p], Unwrap(PREV_CPU_VALUES[p])) )
               => /\ InPercentRange(Unwrap(stats'[p]).cpu_usage)
                  /\ InPercentRange(Unwrap(stats'[p]).cpu_iowait)
                  /\ FLe(FAdd(Unwrap(stats'[p]).cpu_usage,
                              Unwrap(stats'[p]).cpu_iowait), F64(100))
            /\ ( /\ IsSome(rawNow'[p])
                 /\ ReportedKb(Unwrap(rawNow'[p]).meminfo, "MemAvailable") >= 0
                 /\ ReportedKb(Unwrap(rawNow'[p]).meminfo, "MemAvailable")
                      <= ReportedKb(Unwrap(rawNow'[p]).meminfo, "MemTotal") )
               => InPercentRange(Unwrap(stats'[p]).memory.used_percentage)]_vars

\* The second tick read an aggregate line on which only iowait advanced
\* since the first, by 50 of a total of 50: usage 0 and iowait 100; the
\* memory is 25 percent used.
C32_Witness ==
    /\ ticks[1] = 2
    /\ IsSome(stats[1])
    /\ HasAggregate(rawNow[1])
    /\ Unwrap(stats[1]).cpu_usage = Zero
    /\ Unwrap(stats[1]).cpu_iowait = F64(100)
    /\ Unwrap(PREV_CPU_VALUES[1]).iowait = F64(60)
    /\ Unwrap(PREV_CPU_VALUES[1]).total = F64(730)
    /\ Unwrap(stats[1]).memory.used_percentage = F64(25)

\* ------------------------------------------------------------------- C33
\* C33: a start attempt is refused (exit 1 at the singleton check) only
\* while the process of another daemon instance is alive, whatever pid the
\* marker file names.
C33_RefusedOnlyByLiveDaemon ==
    [][\A p \in Procs :
          (pc[p] = "proc_check" /\ pc'[p] = "exited")
             => \E q \in Procs \ {p} : Pid(q) \in live]_vars

\* ------------------------------------------------------------------- C34
\* The server task of process p passes from the removal to the bind.
RemovalBy(p) == srv[p] = "start" /\ srv'[p] = "bind"

\* A dead instance's socket file is at the socket path.
StaleSocket == sockFile # 0 /\ sockFile \notin live

\* The removal step leaves no stale socket file at the path.
C34_StaleSocketRemoved ==
    [][\A p \in Procs : (RemovalBy(p) /\ StaleSocket) => sockFile' = 0]_vars

\* The socket path changes only in steps of a server task whose process has
\* passed the singleton check, and a refused process has touched no socket.
C34_RemovalOnlyAfterCheck ==
    /\ [][sockFile' # sockFile
            => \E p \in Procs : /\ Constructed(p)
                                /\ srv[p] \in {"start", "bind"}
                                /\ srv'[p] # srv[p]]_vars
    /\ [](\A p \in Procs :
            pc[p] \in {"exited", "panicked"} => "socket" \notin touched[p])

\* C34: the server task's removal step leaves no socket file of a dead
\* instance at the path, so that such a file never makes the bind fail; the
\* socket path is changed only by a process that has passed the singleton
\* check, and a start attempt the check rejected has not touched it.
C34_StaleSocketNeverBlocksBind ==
    /\ C34_StaleSocketRemoved
    /\ C34_RemovalOnlyAfterCheck
    /\ [][\A p \in Procs :
            (srv[p] = "bind" /\ srv'[p] = "failed") => ~StaleSocket]_vars

\* ------------------------------------------------------------------- C35
\* The accept of connection c fails in this step.
AcceptFailedFor(c) == conn'[c].accept_errors = conn[c].accept_errors + 1

\* C35: a failed accept changes nothing but the connection it was reported
\* for and leaves the server task in its accept loop; after any number of
\* accept errors a connection in the backlog can still be accepted; and a
\* snapshot a handler delivers after accept errors is the whole history
\* after some number of ticks.
C35_AcceptErrorsDoNotStopServer ==
    /\ [][\A c \in Conns :
            AcceptFailedFor(c)
               => /\ srv[conn[c].server] = "accept"
                  /\ UNCHANGED <<hostVars, mainVars, tickVars, ghostVars>>
                  /\ \A d \in Conns \ {c} : conn'[d] = conn[d]]_vars
    /\ [](\A c \in Conns :
            conn[c].state = "queued"
               => /\ srv[conn[c].server] = "accept"
                  /\ ENABLED Accept(c))
    /\ [](\A c \in Conns :
            ( /\ conn[c].accept_errors >= 1
              /\ conn[c].state = "closed"
              /\ conn[c].write_ok )
               => \E k \in 0..Len(committed[conn[c].server]) :
                     conn[c].received
                        = HistoryToJson(HistoryAfter(conn[c].server, k)))

\* Two accepts have failed; the next one succeeded and its handler has
\* delivered the history after two ticks and closed the stream.
C35_Witness ==
    /\ conn[1].accept_errors = MaxAcceptErrors
    /\ conn[1].state = "closed"
    /\ conn[1].write_ok
    /\ Len(committed[1]) = 2
    /\ conn[1].received = HistoryToJson(committed[1][2])
    /\ srv[1] = "accept"

\* ------------------------------------------------------------------- C36
\* The widget's poll over connection c ends in this step: its read of the
\* stream has returned.
PollReadOn(c) == conn[c].state = "closed" /\ conn'[c].state = "idle"

\* The widget's poll ends in this step without a connection.
PollWithoutSocket == widget' # widget /\ conn' = conn

\* What parsing the history file gives: the object it holds, and the empty
\* object (no member) when the file is missing, empty or cut short, which
\* is how historyFile records those.
ParsedFile == IF historyFile = <<>> THEN <<>> ELSE historyFile

\* C36: a poll whose connect fails, or whose read of the stream fails,
\* returns what the history file parses to; a poll whose read succeeds
\* returns what the text read from the socket parses to, whatever the file
\* holds; a text cut short or an empty file gives the empty object.
C36_SocketPreferredFileFallback ==
    /\ [][PollWithoutSocket
            => /\ ~\E p \in Procs : sockFile = Pid(p) /\ srv[p] = "accept"
               /\ widget'.source = "file"
               /\ widget'.history = ParsedFile]_vars
    /\ [][\A c \in Conns :
            PollReadOn(c)
               => /\ widget'.source \in {"socket", "file"}
                  /\ widget'.source = "file" => widget'.history = ParsedFile
                  /\ widget'.source = "socket"
                       => widget'.history
                            = (IF conn[c].write_ok THEN conn[c].json
                               ELSE <<>>)]_vars
    /\ [](widget.history = <<>>
            \/ \E k \in 0..Len(committed[1]) :
                  widget.history = HistoryToJson(HistoryAfter(1, k)))

\* The bind failed, so the poll's connect failed, and the poll returned the
\* history file's object, the history after the first tick.
C36_Witness ==
    /\ srv[1] = "failed"
    /\ widget.source = "file"
    /\ Len(committed[1]) >= 1
    /\ widget.history = HistoryToJson(committed[1][1])
    /\ historyFile = widget.history
    /\ conn[1].state = "idle"

\* ------------------------------------------------------------------- C37
\* The widget's last poll loaded a snapshot the daemon produced.
PolledSnapshot == widget.history # <<>>

\* The widget's series are the snapshot's series of 60 elements.
C37_SeriesMatch ==
    PolledSnapshot =>
        /\ widget.mem_data.apps = JsonMember(widget.history, "memory_apps")
        /\ widget.mem_data.cached = JsonMember(widget.history, "memory_cached")
        /\ widget.mem_data.buffers
             = JsonMember(widget.history, "memory_buffers")
        /\ widget.mem_data.slab = JsonMember(widget.history, "memory_slab")
        /\ widget.mem_data.shmem = JsonMember(widget.history, "memory_shmem")
        /\ Len(widget.mem_data.apps) = HISTORY_SIZE

\* C37: after a poll that loaded a snapshot of the daemon, the widget's
\* memory total is the snapshot's memory_total, and its apps, cached,
\* buffers, slab and shmem series are the snapshot's series.
C37_WidgetReadsDaemonFields ==
    /\ C37_SeriesMatch
    /\ PolledSnapshot
          => widget.mem_data.total = JsonMember(widget.history, "memory_total")

====
